---------------------------- MODULE Spec2Model ----------------------------
(***************************************************************************)
(* AltAlpha Lab: the signal rule, the vectorized backtest, the day-by-day  *)
(* live simulator and the grid-search optimizer.                           *)
(*                                                                         *)
(* Numbers.  The program computes with binary floating point.  The model   *)
(* computes with exact decimals of unbounded length (a sign, a digit       *)
(* sequence and a decimal exponent), so that a comparison, a rounding to   *)
(* cents or a cumulative product is decided exactly and not by the width   *)
(* of the model checker's integers.  NaN is a value of its own: every      *)
(* comparison with it is false, as in IEEE arithmetic.                     *)
(***************************************************************************)
EXTENDS Integers, Sequences, FiniteSets, TLC

Max(a, b) == IF a >= b THEN a ELSE b
Min(a, b) == IF a <= b THEN a ELSE b

(***************************************************************************)
(* Natural numbers as little-endian sequences of limbs in base 10^4,       *)
(* without high-order zero limbs; <<>> is zero.  (An intermediate value    *)
(* that is used more than once is passed on as an argument of a helper     *)
(* definition: the model checker evaluates an argument once.)              *)
(***************************************************************************)
Base == 10 ^ 4

SetMax(S) == CHOOSE i \in S : \A j \in S : j <= i
SetMin(S) == CHOOSE i \in S : \A j \in S : i <= j

NNormTo(a, nz) == IF nz = {} THEN <<>> ELSE SubSeq(a, 1, SetMax(nz))

\* a without its high-order zero limbs
NNorm(a) == NNormTo(a, {i \in 1..Len(a) : a[i] # 0})

RECURSIVE NFromInt(_)
NFromInt(n) == IF n = 0 THEN <<>> ELSE <<n % Base>> \o NFromInt(n \div Base)

NLimb(a, i) == IF 1 <= i /\ i <= Len(a) THEN a[i] ELSE 0

NCmpAt(a, b, i) == IF a[i] < b[i] THEN -1 ELSE 1

\* -1, 0 or 1 as a < b, a = b, a > b
NCmp(a, b) ==
  IF Len(a) < Len(b) THEN -1
  ELSE IF Len(a) > Len(b) THEN 1
  ELSE IF a = b THEN 0
  ELSE NCmpAt(a, b, SetMax({i \in 1..Len(a) : a[i] # b[i]}))

RECURSIVE NCarry(_, _, _, _, _)
NCarryOn(a, b, i, sign, s) ==
  IF s < 0 THEN <<s + Base>> \o NCarry(a, b, i + 1, sign, -1)
  ELSE <<s % Base>> \o NCarry(a, b, i + 1, sign, s \div Base)

\* the limbs from i on of a + sign * b, with the carry or borrow c
NCarry(a, b, i, sign, c) ==
  IF i > Len(a) /\ i > Len(b) THEN (IF c = 0 THEN <<>> ELSE <<c>>)
  ELSE NCarryOn(a, b, i, sign, NLimb(a, i) + sign * NLimb(b, i) + c)

NAdd(a, b) == NCarry(a, b, 1, 1, 0)

\* a - b for a >= b
NSub(a, b) == NNorm(NCarry(a, b, 1, -1, 0))

RECURSIVE NMulSmallFrom(_, _, _, _)
NMulSmallOn(a, m, i, s) == <<s % Base>> \o NMulSmallFrom(a, m, i + 1, s \div Base)

NMulSmallFrom(a, m, i, c) ==
  IF i > Len(a) THEN (IF c = 0 THEN <<>> ELSE <<c>>)
  ELSE NMulSmallOn(a, m, i, a[i] * m + c)

\* a * m for 0 <= m < Base
NMulSmall(a, m) ==
  IF m = 0 THEN <<>> ELSE IF m = 1 THEN a ELSE NMulSmallFrom(a, m, 1, 0)

\* a * Base^k
NShift(a, k) == IF a = <<>> \/ k <= 0 THEN a ELSE [i \in 1..k |-> 0] \o a

RECURSIVE NMulFrom(_, _, _, _)
NMulOn(a, b, j, acc) == IF Len(acc) >= 0 THEN NMulFrom(a, b, j, acc) ELSE <<>>

NMulFrom(a, b, j, acc) ==
  IF j > Len(b) THEN acc
  ELSE NMulOn(a, b, j + 1, NAdd(acc, NShift(NMulSmall(a, b[j]), j - 1)))

NMul(a, b) ==
  IF Len(a) >= Len(b) THEN NMulFrom(a, b, 1, <<>>) ELSE NMulFrom(b, a, 1, <<>>)

RECURSIVE NFit(_, _, _)
\* the largest q <= guess with q * b <= r
NFit(r, b, guess) ==
  IF guess = 0 \/ NCmp(NMulSmall(b, guess), r) <= 0 THEN guess
  ELSE NFit(r, b, guess - 1)

\* the limb q with q * b <= r < (q + 1) * b, for r < Base * b and a divisor b
\* whose top limb is at least Base / 2: the guess from the top limbs is at
\* most 2 above q
NQuotLimb(r, b) ==
  IF Len(r) < Len(b) THEN 0
  ELSE NFit(r, b, Min(Base - 1,
                      (NLimb(r, Len(b) + 1) * Base + NLimb(r, Len(b)))
                        \div b[Len(b)]))

RECURSIVE NDivFrom(_, _, _, _, _)
NDivSub(a, b, i, r1, d, q) ==
  NDivFrom(a, b, i - 1, NSub(r1, NMulSmall(b, d)), <<d>> \o q)

NDivOn(a, b, i, r1, q) == NDivSub(a, b, i, r1, NQuotLimb(r1, b), q)

\* long division: i is the next limb of a to bring down, r the remainder,
\* q the quotient limbs found so far (little-endian)
NDivFrom(a, b, i, r, q) ==
  IF i = 0 THEN [q |-> NNorm(q), r |-> r, d |-> b]
  ELSE NDivOn(a, b, i, NNorm(<<a[i]>> \o r), q)

NDivScaled(a, b, k) ==
  NDivFrom(a, b, Len(a) - k, SubSeq(a, Len(a) - k + 1, Len(a)), <<>>)

NDivBy(a, b, f) == 
  NDivScaled(NMulSmall(a, f), NMulSmall(b, f), Min(Len(a), Len(b) - 1))

\* the quotient q and the remainder r / d of a by b, b # 0: a and b are
\* scaled by f to bring the top limb of the divisor to Base / 2 or more,
\* which leaves the quotient as it is; d is the scaled divisor
NDivMod(a, b) == NDivBy(a, b, Base \div (b[Len(b)] + 1))

\* the number of low-order zero limbs of a, at most k
NLowZerosIn(a, k, nz) == IF nz = {} THEN Min(k, Len(a)) ELSE SetMin(nz) - 1
NLowZeros(a, k) == NLowZerosIn(a, k, {i \in 1..Len(a) : a[i] # 0 \/ i > k})

(***************************************************************************)
(* Decimals: (-1)^neg * dig * Base^(-exp), in canonical form (no low-order *)
(* zero limb while exp > 0, zero is positive), so that two decimals are    *)
(* equal as numbers exactly when they are equal as records.                *)
(***************************************************************************)
NaN == [neg |-> FALSE, dig |-> <<>>, exp |-> -1]
IsNa(x) == x.exp = -1

DMakeZ(neg, dig, exp, z) ==
  IF z >= Len(dig) THEN [neg |-> FALSE, dig |-> <<>>, exp |-> 0]
  ELSE [neg |-> neg, dig |-> SubSeq(dig, z + 1, Len(dig)), exp |-> exp - z]

DMake(neg, dig, exp) ==
  IF dig = <<>> THEN [neg |-> FALSE, dig |-> <<>>, exp |-> 0]
  ELSE IF exp = 0 \/ dig[1] # 0 THEN [neg |-> neg, dig |-> dig, exp |-> exp]
  ELSE DMakeZ(neg, dig, exp, NLowZeros(dig, exp))

\* the limbs of exponent that hold p decimal places, and the power of ten
\* that fills the last of them
LimbsFor(p) == (p + 3) \div 4
Fill(p) == 10 ^ (4 * LimbsFor(p) - p)

\* the natural number n times 10^(-p)
DOfNat(neg, n, p) == DMake(neg, NMulSmall(n, Fill(p)), LimbsFor(p))

\* the integer n times 10^(-p): D(999, 3) is 0.999
D(n, p) == DOfNat(n < 0, NFromInt(IF n < 0 THEN -n ELSE n), p)

DZero == D(0, 0)
DOne == D(1, 0)

DNeg(x) == IF x.dig = <<>> THEN x ELSE [x EXCEPT !.neg = ~x.neg]
DAbs(x) == [x EXCEPT !.neg = FALSE]
DSign(x) == IF x.dig = <<>> THEN 0 ELSE IF x.neg THEN -1 ELSE 1

\* the limbs of x at exponent e >= x.exp
DAt(x, e) == NShift(x.dig, e - x.exp)

DCmpAbs(x, y, e) == NCmp(DAt(x, e), DAt(y, e))

DCmp(x, y) ==
  IF DSign(x) # DSign(y) THEN (IF DSign(x) < DSign(y) THEN -1 ELSE 1)
  ELSE IF x.neg THEN -DCmpAbs(x, y, Max(x.exp, y.exp))
  ELSE DCmpAbs(x, y, Max(x.exp, y.exp))

\* comparisons; with a NaN operand every one of them is false
DLt(x, y) == ~IsNa(x) /\ ~IsNa(y) /\ DCmp(x, y) < 0
DGt(x, y) == DLt(y, x)
DLe(x, y) == ~IsNa(x) /\ ~IsNa(y) /\ DCmp(x, y) <= 0
DGe(x, y) == DLe(y, x)

DAddAt(xneg, a, yneg, b, e) ==
  IF xneg = yneg THEN DMake(xneg, NAdd(a, b), e)
  ELSE IF NCmp(a, b) >= 0 THEN DMake(xneg, NSub(a, b), e)
  ELSE DMake(yneg, NSub(b, a), e)

DAddTo(x, y, e) == DAddAt(x.neg, DAt(x, e), y.neg, DAt(y, e), e)

DAdd(x, y) ==
  IF x.dig = <<>> THEN y ELSE IF y.dig = <<>> THEN x
  ELSE DAddTo(x, y, Max(x.exp, y.exp))

DSub(x, y) == DAdd(x, DNeg(y))

DMul(x, y) == DMake(x.neg # y.neg, NMul(x.dig, y.dig), x.exp + y.exp)

\* q, or q + 1, as the remainder r / d rounds half-to-even
NRoundUp(q, c) ==
  IF c > 0 \/ (c = 0 /\ NLimb(q, 1) % 2 = 1) THEN NAdd(q, <<1>>) ELSE q

DDivDone(neg, qr, p) ==
  DOfNat(neg, NRoundUp(qr.q, NCmp(NMulSmall(qr.r, 2), qr.d)), p)

DDivAt(x, y, p, k) ==
  DDivDone(x.neg # y.neg,
           NDivMod(NShift(NMulSmall(x.dig, 10 ^ (p % 4)), k),
                   NShift(y.dig, -k)),
           p)

\* x / y rounded half-to-even to p decimal places, y # 0
DDivRound(x, y, p) ==
  IF x.dig = <<>> THEN x ELSE DDivAt(x, y, p, (p \div 4) + y.exp - x.exp)

\* w is x in units of 10^(-p), with f > 0 limbs after the point
DRoundAt(neg, w, f, p) ==
  DOfNat(neg,
         NRoundUp(SubSeq(w, f + 1, Len(w)),
                  IF NLimb(w, f) > Base \div 2 THEN 1
                  ELSE IF NLimb(w, f) < Base \div 2 THEN -1
                  ELSE IF \E i \in 1..(f - 1) : NLimb(w, i) # 0 THEN 1
                  ELSE 0),
         p)

\* round(x, p): half-to-even at p decimal places
DRound(x, p) ==
  IF x.exp <= p \div 4 THEN x
  ELSE DRoundAt(x.neg, NMulSmall(x.dig, 10 ^ (p % 4)), x.exp - (p \div 4), p)

\* the decimal places kept by a division whose quotient does not terminate
\* (a float keeps 15 to 17 significant digits)
DivPlaces == 20

\* x / y: exact when the quotient terminates within DivPlaces places
DDiv(x, y) == DDivRound(x, y, DivPlaces)

RECURSIVE NToInt(_)
NToInt(a) == IF Len(a) = 0 THEN 0 ELSE a[1] + Base * NToInt(Tail(a))

\* a div 2
NHalf(a) == IF a = <<>> THEN <<>> ELSE NDivMod(a, <<2>>).q

RECURSIVE NSqrtFrom(_, _)
NSqrtNext(n, r, next) == IF NCmp(next, r) >= 0 THEN r ELSE NSqrtFrom(n, next)

\* Newton's iteration from r, at least the root, down to the root
NSqrtFrom(n, r) == NSqrtNext(n, r, NHalf(NAdd(r, NDivMod(n, r).q)))

RECURSIVE ISqrtIn(_, _, _)
\* the largest integer in lo..hi whose square is at most t, for lo * lo <= t
ISqrtIn(t, lo, hi) ==
  IF lo >= hi THEN lo
  ELSE IF ((lo + hi + 1) \div 2) * ((lo + hi + 1) \div 2) <= t
    THEN ISqrtIn(t, (lo + hi + 1) \div 2, hi)
  ELSE ISqrtIn(t, lo, ((lo + hi + 1) \div 2) - 1)

\* a first value at least the root of n, a number of 2 * h limbs or of one
\* less: one more than the root of its two top limbs, h - 1 limbs up
NSqrtGuess(n, h) ==
  NShift(NFromInt(ISqrtIn(NLimb(n, 2 * h) * Base + NLimb(n, 2 * h - 1),
                          0, Base) + 1),
         h - 1)

\* the largest natural number whose square is at most n
NSqrt(n) ==
  IF n = <<>> THEN <<>>
  ELSE NSqrtFrom(n, NSqrtGuess(n, (Len(n) + 1) \div 2))

\* np.sqrt(x) for x >= 0, to DivPlaces places
DSqrt(x) ==
  IF x.dig = <<>> THEN x
  ELSE DMake(FALSE, NSqrt(NShift(x.dig, 2 * LimbsFor(DivPlaces) - x.exp)),
             LimbsFor(DivPlaces))

\* int(x): the whole part of x, towards 0
DInt(x) ==
  (IF x.neg THEN -1 ELSE 1)
    * NToInt(SubSeq(x.dig, x.exp + 1, Len(x.dig)))

(***************************************************************************)
(* Inputs.  The feature series is input of every run: rows of date, close, *)
(* returns, sentiment_avg_5d and volatility_5d.  Dates are the row numbers *)
(* (ordered, no duplicates).  volatility_5d is undefined (NaN) on the rows *)
(* of the warm-up window and returns on the first row.                     *)
(***************************************************************************)
\* the longest feature series of a run
MaxDays == 3

Closes == {D(100, 0), D(125, 0)}
Sentiments == {D(-5, 1), DZero, D(5, 1)}
Volatilities == {NaN, D(1, 2), D(2, 2)}
Capitals == {D(10000, 0)}
TransactionCosts == {DZero, D(1, 3)}
SentimentThresholds == {D(2, 1)}
VolatilityPercentiles == {50}

None == <<>>
Some(x) == <<x>>

VARIABLES
  df,                    \* the rows of the feature series read so far
  volatility_5d,         \* the volatility_5d column of the feature series
  initial_capital, transaction_cost, sentiment_threshold,
  volatility_percentile, \* the arguments of the run
  volatility_threshold,
  cash, position, shares, prev_portfolio_value, peak_value, open_trade,
  simulation_states, completed_trades, daily_pnl, position_history,
  result,                \* what the run returns, None while it runs
  pc,                    \* where the run is
  strategy,              \* what generate_sentiment_strategy computed
  cell,                  \* what _run_strategy_backtest computed
  previous,              \* the request before this one: its series and results
  backtest,              \* the rows that run_backtest returns
  sentiment_range, volatility_range,   \* the grid of optimize_strategy
  results,               \* the results of the cells evaluated so far
  sharpe_memo,           \* the Sharpe ratios computed so far, by return series
  metrics,               \* what calculate_performance_metrics returns
  endpoint,              \* the endpoint of the API that was requested
  response,              \* the response of the API, None until it is sent
  top_n,                 \* how many regions _find_stable_regions is asked for
  stable_regions         \* what _find_stable_regions returns

args == <<initial_capital, transaction_cost, sentiment_threshold,
          volatility_percentile>>
loop == <<cash, position, shares, prev_portfolio_value, peak_value,
          open_trade>>
logs == <<simulation_states, completed_trades, daily_pnl, position_history>>
search == <<sentiment_range, volatility_range, results, sharpe_memo>>
batch == <<strategy, cell, previous, backtest, search>>
stability == <<top_n, stable_regions>>
api == <<metrics, endpoint, response, stability>>
vars == <<df, volatility_5d, args, volatility_threshold, loop, logs, result,
          pc, batch, api>>

\* no request through the API: the function is called directly
NoStability == top_n = None /\ stable_regions = None
NoApi ==
  metrics = None /\ endpoint = None /\ response = None /\ NoStability

\* no grid search runs
NoSearch ==
  /\ sentiment_range = <<>> /\ volatility_range = <<>>
  /\ results = <<>> /\ sharpe_memo = {}

(***************************************************************************)
(* np.percentile(column.dropna(), q), linear interpolation between the two *)
(* nearest ranks; NaN for an empty column.                                 *)
(***************************************************************************)
DropNa(col) == SelectSeq(col, LAMBDA v : ~IsNa(v))

RECURSIVE Insert(_, _)
Insert(v, sorted) ==
  IF sorted = <<>> THEN <<v>>
  ELSE IF DCmp(v, Head(sorted)) <= 0 THEN <<v>> \o sorted
  ELSE <<Head(sorted)>> \o Insert(v, Tail(sorted))

RECURSIVE SortAsc(_)
SortAsc(col) == IF col = <<>> THEN <<>> ELSE Insert(Head(col), SortAsc(Tail(col)))

PercentileAt(v, lo, hi, g) ==
  DAdd(v[lo + 1], DMul(D(g, 2), DSub(v[hi + 1], v[lo + 1])))

PercentileOf(v, q) ==
  IF Len(v) = 0 THEN NaN
  ELSE PercentileAt(v, ((Len(v) - 1) * q) \div 100,
                    Min((((Len(v) - 1) * q) \div 100) + 1, Len(v) - 1),
                    ((Len(v) - 1) * q) % 100)

Percentile(col, q) == PercentileOf(SortAsc(col), q)

VolatilityThreshold(col, q) == Percentile(DropNa(col), q)

(***************************************************************************)
(* _generate_signal: the signal of one row, 1 (long), -1 (short), 0 (flat) *)
(***************************************************************************)
_generate_signal(sentiment_avg, volatility, vol_threshold, sent_threshold) ==
  IF IsNa(sentiment_avg) \/ IsNa(volatility) THEN 0
  ELSE IF DGt(sentiment_avg, sent_threshold) /\ DLt(volatility, vol_threshold)
    THEN 1
  ELSE IF DLt(sentiment_avg, DNeg(sent_threshold)) THEN -1
  ELSE 0

(***************************************************************************)
(* run_live_simulation: the day-by-day replay.                             *)
(***************************************************************************)
Hundred == D(100, 0)

\* round(x / y * 100, 2)
Pct(x, y) == DDivRound(DMul(x, Hundred), y, 2)

PortfolioValueOwingShort(pos, sh, csh, close_price) ==
  IF pos = 1 /\ DGt(sh, DZero) THEN DAdd(csh, DMul(sh, close_price))
  ELSE IF pos = -1 /\ DGt(sh, DZero) THEN DSub(csh, DMul(sh, close_price))
  ELSE csh

\* cash + shares * close while a position is held, the cash otherwise
PortfolioValue(pos, sh, csh, close_price) ==
  IF pos # 0 /\ DGt(sh, DZero) THEN DAdd(csh, DMul(sh, close_price)) ELSE csh

PositionType(pos) == IF pos = 1 THEN "LONG" ELSE IF pos = -1 THEN "SHORT" ELSE "FLAT"

UpdatePeakToValue(peak, value) == value

UpdatePeakNever(peak, value) == peak

\* lines 122-123: the running peak after a day whose value before any trade
\* is value
UpdatePeak(peak, value) == IF DGt(value, peak) THEN value ELSE peak

\* line 124 and line 276: round(current_drawdown * 100, 2)
CurrentDrawdownPct(peak, value) ==
  IF DGt(peak, DZero) THEN Pct(DSub(peak, value), peak) ELSE DZero

ClosesPositionNever(new_signal, pos, sh) == FALSE

ClosesPositionToFlat(new_signal, pos, sh) ==
  new_signal = 0 /\ pos # 0 /\ DGt(sh, DZero)

\* lines 143-145: the shares are sold when the signal leaves a position held
ClosesPosition(new_signal, pos, sh) ==
  new_signal # pos /\ pos # 0 /\ DGt(sh, DZero)

OpensPositionFromFlat(new_signal, pos) == pos = 0 /\ new_signal # 0

\* lines 143 and 186: cash is deployed when the signal enters a position
OpensPosition(new_signal, pos) == new_signal # pos /\ new_signal # 0

\* the empty dictionary that a run on an empty feature series returns
EmptyResult == [empty |-> TRUE]

\* the volatility columns of n rows: a rolling statistic is undefined on the
\* first rows of a series only
VolatilityColumns(n) ==
  {col \in [1..n -> Volatilities] :
     \E k \in 0..n : \A i \in 1..n : IsNa(col[i]) <=> i <= k}

LiveInit ==
  /\ \E n \in 0..MaxDays : volatility_5d \in VolatilityColumns(n)
  /\ df = <<>>
  /\ initial_capital \in Capitals
  /\ transaction_cost \in TransactionCosts
  /\ sentiment_threshold \in SentimentThresholds
  /\ volatility_percentile \in VolatilityPercentiles
  /\ volatility_threshold = NaN
  /\ cash = DZero
  /\ position = 0
  /\ shares = DZero
  /\ prev_portfolio_value = DZero
  /\ peak_value = DZero
  /\ open_trade = None
  /\ simulation_states = <<>>
  /\ completed_trades = <<>>
  /\ daily_pnl = <<>>
  /\ position_history = <<>>
  /\ result = None
  /\ pc = "load"
  /\ strategy = None /\ cell = None /\ previous = None /\ backtest = None
  /\ NoSearch
  /\ NoApi

\* lines 83-85: an empty feature series gives the empty result
LiveEmpty ==
  /\ pc = "load"
  /\ volatility_5d = <<>>
  /\ result' = Some(EmptyResult)
  /\ pc' = "done"
  /\ UNCHANGED <<df, volatility_5d, args, api, volatility_threshold, loop, logs,
                 batch>>

\* lines 87-106: the threshold over the whole column and the initial state
LiveStart ==
  /\ pc = "load"
  /\ volatility_5d # <<>>
  /\ volatility_threshold' =
       VolatilityThreshold(volatility_5d, volatility_percentile)
  /\ cash' = initial_capital
  /\ position' = 0
  /\ shares' = DZero
  /\ prev_portfolio_value' = initial_capital
  /\ peak_value' = initial_capital
  /\ open_trade' = None
  /\ pc' = "loop"
  /\ UNCHANGED <<df, volatility_5d, args, api, logs, result, batch>>

\* lines 115-128: the value of the portfolio before any trade of the day, the
\* running peak, the drawdown and the day's profit, at the close of the day
BeforeTradesAt(value, peak, day_pnl) ==
  [portfolio_value |-> value,
   peak_value |-> peak,
   current_drawdown_pct |-> CurrentDrawdownPct(peak, value),
   day_pnl |-> DRound(day_pnl, 2),
   day_pnl_pct |->
     IF DGt(prev_portfolio_value, DZero) THEN Pct(day_pnl, prev_portfolio_value)
     ELSE DZero]

BeforeTradesOf(value) ==
  BeforeTradesAt(value, UpdatePeak(peak_value, value),
                 DSub(value, prev_portfolio_value))

BeforeTrades(close_price) ==
  BeforeTradesOf(PortfolioValue(position, shares, cash, close_price))

TradePnlLessEntryCost(net, ot) ==
  DSub(DSub(net, ot.entry_value), ot.entry_cost)

\* line 153: the realized profit is the net proceeds less the entry value,
\* which is already net of the entry cost
TradePnl(net, ot) == DSub(net, ot.entry_value)

HoldingDaysThroughExit(entry_date) ==
  Cardinality({i \in 1..Len(simulation_states) :
                 simulation_states[i].date >= entry_date}) + 1

\* line 155: the steps recorded so far, which do not yet hold the step of
\* the day of the exit, whose date is the entry date or later
HoldingDays(entry_date) ==
  Cardinality({i \in 1..Len(simulation_states) :
                 simulation_states[i].date >= entry_date})

\* lines 153-171: the record of the trade that a close completes
TradeIdOfLedgerLength == Len(completed_trades)

\* line 158: the number of the trade that is recorded next
TradeId == Len(completed_trades) + 1

CompletedTrade(ot, date, close_price, net, cost, trade_pnl) ==
  [trade_id |-> TradeId,
   type |-> IF ot.position = 1 THEN "LONG" ELSE "SHORT",
   entry_date |-> ot.entry_date,
   entry_price |-> ot.entry_price,
   entry_value |-> ot.entry_value,
   exit_date |-> date,
   exit_price |-> DRound(close_price, 2),
   exit_value |-> DRound(net, 2),
   shares |-> DRound(shares, 4),
   profit_loss |-> DRound(trade_pnl, 2),
   profit_loss_pct |->
     IF DGt(ot.entry_value, DZero) THEN Pct(trade_pnl, ot.entry_value)
     ELSE DZero,
   holding_days |-> HoldingDays(ot.entry_date),
   transaction_costs |-> DRound(DAdd(ot.entry_cost, cost), 2)]

\* lines 145-183: all shares are sold for net = proceeds - cost
SellFor(date, close_price, net, cost) ==
  [cash |-> net,
   shares |-> DZero,
   open_trade |-> None,
   completed_trades |->
     IF open_trade # None
       THEN Append(completed_trades,
                   CompletedTrade(open_trade[1], date, close_price, net, cost,
                                  TradePnl(net, open_trade[1])))
       ELSE completed_trades,
   trade |-> Some([action |-> "CLOSE",
                   price |-> DRound(close_price, 2),
                   shares |-> DRound(shares, 4),
                   proceeds |-> DRound(net, 2)])]

SellAt(date, close_price, proceeds, cost) ==
  SellFor(date, close_price, DSub(proceeds, cost), cost)

Sell(date, close_price, proceeds) ==
  SellAt(date, close_price, proceeds, DMul(proceeds, transaction_cost))

\* lines 143-183: the position held is closed when the signal leaves it
ClosePosition(new_signal, date, close_price) ==
  IF ClosesPosition(new_signal, position, shares)
    THEN Sell(date, close_price, DMul(shares, close_price))
    ELSE [cash |-> cash, shares |-> shares, open_trade |-> open_trade,
          completed_trades |-> completed_trades, trade |-> None]

\* lines 186-210: all cash buys shares at the close, less the cost
BuyAt(s, new_signal, date, close_price, trade_value, bought) ==
  [cash |-> DZero,
   shares |-> bought,
   open_trade |-> Some([entry_date |-> date,
                        entry_price |-> DRound(close_price, 2),
                        entry_value |-> DRound(trade_value, 2),
                        entry_cost |-> DRound(DMul(s.cash, transaction_cost), 2),
                        shares |-> bought,
                        position |-> new_signal]),
   completed_trades |-> s.completed_trades,
   trade |-> Some([action |-> PositionType(new_signal),
                   price |-> DRound(close_price, 2),
                   shares |-> DRound(bought, 4),
                   value |-> DRound(trade_value, 2)])]

Buy(s, new_signal, date, close_price, trade_value) ==
  BuyAt(s, new_signal, date, close_price, trade_value,
        DDiv(trade_value, close_price))

\* lines 185-210: a position is opened when the signal enters one
OpenPosition(s, new_signal, date, close_price) ==
  IF OpensPosition(new_signal, position)
    THEN Buy(s, new_signal, date, close_price,
             DMul(s.cash, DSub(DOne, transaction_cost)))
    ELSE s

\* lines 143-212: the trades of the day
Trade(new_signal, date, close_price) ==
  OpenPosition(ClosePosition(new_signal, date, close_price),
               new_signal, date, close_price)

\* lines 214-226: the value after the trades and the unrealized profit
EndOfDayAt(s, value, market, unrealized_pnl) ==
  [portfolio_value |-> value,
   market_value |-> IF DGt(s.shares, DZero) THEN DRound(market, 2) ELSE DZero,
   unrealized_pnl |-> DRound(unrealized_pnl, 2),
   unrealized_pnl_pct |->
     IF s.open_trade # None /\ DGt(s.shares, DZero)
        /\ DGt(s.open_trade[1].entry_value, DZero)
       THEN Pct(unrealized_pnl, s.open_trade[1].entry_value)
       ELSE DZero,
   cumulative_pnl |-> DRound(DSub(value, initial_capital), 2),
   total_return_pct |-> Pct(DSub(value, initial_capital), initial_capital)]

EndOfDayOn(s, value, market) ==
  EndOfDayAt(s, value, market,
             IF s.open_trade # None /\ DGt(s.shares, DZero)
               THEN DSub(market, s.open_trade[1].entry_value)
               ELSE DZero)

EndOfDay(s, pos, close_price) ==
  EndOfDayOn(s, PortfolioValue(pos, s.shares, s.cash, close_price),
             DMul(s.shares, close_price))

\* lines 229-279: the three records that the day appends to the logs
DailyPnl(date, before, eod) ==
  [date |-> date,
   pnl |-> before.day_pnl,
   pnl_pct |-> before.day_pnl_pct,
   cumulative_pnl |-> eod.cumulative_pnl,
   cumulative_pnl_pct |-> eod.total_return_pct]

PositionHistoryOfDayBefore(date, pos, s, eod) ==
  [date |-> date - 1,
   position |-> pos,
   position_type |-> PositionType(pos),
   shares |-> DRound(s.shares, 4),
   market_value |-> eod.market_value]

PositionHistory(date, pos, s, eod) ==
  [date |-> date,
   position |-> pos,
   position_type |-> PositionType(pos),
   shares |-> DRound(s.shares, 4),
   market_value |-> eod.market_value]

SimulationState(row, new_signal, pos, before, s, eod) ==
  [step |-> Len(simulation_states) + 1,
   date |-> row.date,
   market_data |->
     [close |-> DRound(row.close, 2),
      sentiment_avg_5d |->
        IF IsNa(row.sentiment_avg_5d) THEN None
        ELSE Some(DRound(row.sentiment_avg_5d, 4)),
      volatility_5d |->
        IF IsNa(row.volatility_5d) THEN None
        ELSE Some(DRound(row.volatility_5d, 6))],
   signal |-> new_signal,
   signal_type |-> PositionType(new_signal),
   position |->
     [current |-> pos,
      type |-> PositionType(pos),
      shares |-> DRound(s.shares, 4),
      entry_price |->
        IF s.open_trade # None THEN Some(s.open_trade[1].entry_price)
        ELSE None,
      entry_date |->
        IF s.open_trade # None THEN Some(s.open_trade[1].entry_date)
        ELSE None,
      unrealized_pnl |-> eod.unrealized_pnl,
      unrealized_pnl_pct |-> eod.unrealized_pnl_pct],
   portfolio |->
     [cash |-> DRound(s.cash, 2),
      market_value |-> eod.market_value,
      total_value |-> DRound(eod.portfolio_value, 2),
      daily_pnl |-> before.day_pnl,
      daily_pnl_pct |-> before.day_pnl_pct,
      total_return_pct |-> eod.total_return_pct],
   risk |->
     [peak_value |-> DRound(before.peak_value, 2),
      current_drawdown_pct |-> before.current_drawdown_pct],
   trade |-> s.trade]

\* lines 109-281: one iteration of the loop, on the next row of the series
LiveDay(close_price, sentiment_avg) ==
  /\ pc = "loop"
  /\ Len(df) < Len(volatility_5d)
  /\ \E row \in {[date |-> Len(df) + 1, close |-> close_price,
                  sentiment_avg_5d |-> sentiment_avg,
                  volatility_5d |-> volatility_5d[Len(df) + 1]]} :
     \E before \in {BeforeTrades(close_price)} :
     \E new_signal \in {_generate_signal(sentiment_avg, row.volatility_5d,
                          volatility_threshold, sentiment_threshold)} :
     \E s \in {Trade(new_signal, row.date, close_price)} :
     \E pos \in {IF new_signal # position THEN new_signal ELSE position} :
     \E eod \in {EndOfDay(s, pos, close_price)} :
       /\ df' = Append(df, row)
       /\ peak_value' = before.peak_value
       /\ cash' = s.cash
       /\ shares' = s.shares
       /\ open_trade' = s.open_trade
       /\ completed_trades' = s.completed_trades
       /\ position' = pos
       /\ daily_pnl' = Append(daily_pnl, DailyPnl(row.date, before, eod))
       /\ position_history' =
            Append(position_history, PositionHistory(row.date, pos, s, eod))
       /\ simulation_states' =
            Append(simulation_states,
                   SimulationState(row, new_signal, pos, before, s, eod))
       /\ prev_portfolio_value' = eod.portfolio_value
  /\ UNCHANGED <<volatility_5d, args, api, volatility_threshold, result, pc, batch>>

(***************************************************************************)
(* lines 283-328: the final calculations and the summary.  float('inf')    *)
(* and the "inf" it is reported as are the value Inf.                      *)
(***************************************************************************)
Inf == [neg |-> FALSE, dig |-> <<>>, exp |-> -2]

RECURSIVE DSum(_)
DSum(xs) == IF Len(xs) = 0 THEN DZero ELSE DAdd(Head(xs), DSum(Tail(xs)))

\* the first of the largest values of a non-empty list, as max() finds it
DMaxOf(xs) ==
  xs[SetMin({i \in 1..Len(xs) : \A j \in 1..Len(xs) : DGe(xs[i], xs[j])})]

DMinOf(xs) ==
  xs[SetMin({i \in 1..Len(xs) : \A j \in 1..Len(xs) : DLe(xs[i], xs[j])})]

ProfitLosses(trades) == [i \in 1..Len(trades) |-> trades[i].profit_loss]

\* round(np.mean(xs), 2) of a non-empty list
Mean(xs) == DDivRound(DSum(xs), D(Len(xs), 0), 2)

ProfitFactorNoSentinel(total_profit, total_loss) ==
  IF total_loss # DZero THEN DAbs(DDivRound(total_profit, total_loss, 2))
  ELSE DZero

\* lines 300 and 310: the profit factor as reported, rounded to 2 places
ProfitFactor(total_profit, total_loss) ==
  IF total_loss # DZero THEN DAbs(DDivRound(total_profit, total_loss, 2))
  ELSE IF DGt(total_profit, DZero) THEN Inf
  ELSE DZero

\* lines 291-316: the summary of the completed trades
SummaryOf(winning_trades, losing_trades, total_profit, total_loss, max_dd) ==
  [trading_days |-> Len(simulation_states),
   total_trades |-> Len(completed_trades),
   winning_trades |-> Len(winning_trades),
   losing_trades |-> Len(losing_trades),
   win_rate_pct |->
     IF Len(completed_trades) > 0
       THEN Pct(D(Len(winning_trades), 0), D(Len(completed_trades), 0))
       ELSE DZero,
   avg_win |-> IF Len(winning_trades) > 0 THEN Mean(winning_trades) ELSE DZero,
   avg_loss |-> IF Len(losing_trades) > 0 THEN Mean(losing_trades) ELSE DZero,
   profit_factor |-> ProfitFactor(total_profit, total_loss),
   total_profit |-> DRound(total_profit, 2),
   total_loss |-> DRound(total_loss, 2),
   max_drawdown_pct |-> DRound(max_dd, 2),
   best_trade |->
     IF Len(completed_trades) > 0 THEN DMaxOf(ProfitLosses(completed_trades))
     ELSE DZero,
   worst_trade |->
     IF Len(completed_trades) > 0 THEN DMinOf(ProfitLosses(completed_trades))
     ELSE DZero]

SummaryFor(winning_trades, losing_trades) ==
  SummaryOf(winning_trades, losing_trades, DSum(winning_trades),
            DSum(losing_trades),
            IF Len(simulation_states) > 0
              THEN DMaxOf([i \in 1..Len(simulation_states) |->
                             simulation_states[i].risk.current_drawdown_pct])
              ELSE DZero)

LosingBelowZero(profit_loss) == DLt(profit_loss, DZero)

\* line 291: a trade is a losing trade when its profit_loss is <= 0
Losing(profit_loss) == DLe(profit_loss, DZero)

Summary ==
  SummaryFor(SelectSeq(ProfitLosses(completed_trades),
                       LAMBDA x : DGt(x, DZero)),
             SelectSeq(ProfitLosses(completed_trades),
                       LAMBDA x : Losing(x)))

\* lines 284-285 and 318-328
ResultOf(final_value) ==
  [initial_capital |-> initial_capital,
   final_capital |-> DRound(final_value, 2),
   total_return_pct |->
     Pct(DSub(final_value, initial_capital), initial_capital),
   summary |-> Summary]

LiveFinish ==
  /\ pc = "loop"
  /\ Len(df) = Len(volatility_5d)
  /\ result' = Some(ResultOf(
       IF Len(simulation_states) > 0
         THEN simulation_states[Len(simulation_states)].portfolio.total_value
         ELSE initial_capital))
  /\ pc' = "done"
  /\ UNCHANGED <<df, volatility_5d, args, api, volatility_threshold, loop, logs,
                 batch>>

LiveNext ==
  \/ LiveEmpty
  \/ LiveStart
  \/ \E close_price \in Closes, sentiment_avg \in Sentiments :
       LiveDay(close_price, sentiment_avg)
  \/ LiveFinish

SpecLive == LiveInit /\ [][LiveNext]_vars


(***************************************************************************)
(* Properties of the day-by-day replay.                                    *)
(***************************************************************************)
\* C1: at the end of every simulated day, in the loop's state and in every
\* recorded step, shares > 0 exactly when the position is not flat, exactly
\* when cash is 0; cash > 0 and shares > 0 never hold together.
C1_InvestedOrInCash ==
  /\ Len(df) > 0 =>
       /\ DGt(shares, DZero) <=> position # 0
       /\ position # 0 <=> cash = DZero
       /\ ~(DGt(cash, DZero) /\ DGt(shares, DZero))
  /\ \A i \in 1..Len(simulation_states) :
       /\ DGt(simulation_states[i].position.shares, DZero)
            <=> simulation_states[i].position.current # 0
       /\ simulation_states[i].position.current # 0
            <=> simulation_states[i].portfolio.cash = DZero

\* a run that was invested on one day and back in cash on a later day
C1_Witness ==
  \E i, j \in 1..Len(simulation_states) :
    /\ i < j
    /\ simulation_states[i].position.current # 0
    /\ DGt(simulation_states[i].position.shares, DZero)
    /\ simulation_states[j].position.current = 0
    /\ DGt(simulation_states[j].portfolio.cash, DZero)

\* C2: the peak value recorded in a step is at least the peak recorded in
\* the step before it, and the first recorded peak is at least the initial
\* capital.
C2_PeakNonDecreasing ==
  /\ Len(simulation_states) > 0 =>
       DGe(simulation_states[1].risk.peak_value, initial_capital)
  /\ \A i \in 1..(Len(simulation_states) - 1) :
       DGe(simulation_states[i + 1].risk.peak_value,
           simulation_states[i].risk.peak_value)

\* a run whose peak rose on one day and whose value fell below it on another
C2_Witness ==
  /\ \E i \in 1..(Len(simulation_states) - 1) :
       DGt(simulation_states[i + 1].risk.peak_value,
           simulation_states[i].risk.peak_value)
  /\ \E i \in 1..Len(simulation_states) :
       DLt(simulation_states[i].portfolio.total_value,
           simulation_states[i].risk.peak_value)

\* C3: the drawdown recorded in every step is between 0 and 100 percent, and
\* the drawdown of a peak of 0 is 0.
C3_DrawdownInRange ==
  /\ \A i \in 1..Len(simulation_states) :
       /\ DGe(simulation_states[i].risk.current_drawdown_pct, DZero)
       /\ DLe(simulation_states[i].risk.current_drawdown_pct, Hundred)
  /\ \A value \in {DZero, DOne, peak_value} :
       CurrentDrawdownPct(DZero, value) = DZero

\* a step with a drawdown above 0
C3_Witness ==
  \E i \in 1..Len(simulation_states) :
    DGt(simulation_states[i].risk.current_drawdown_pct, DZero)

\* the position at the start of day i: the position at the end of the day
\* before, flat on the first day
PositionAtStart(i) == IF i = 1 THEN 0 ELSE position_history[i - 1].position

\* the days on which a position held at the start of the day is left
CloseTransitions ==
  {i \in 1..Len(position_history) :
     PositionAtStart(i) # 0 /\ position_history[i].position # PositionAtStart(i)}

\* C4: the number of completed trades is the number of days on which the
\* position at the start of the day was long or short and the position at
\* the end of the day is different, after every day and at the end of the
\* run; a position still open adds no completed trade.
C4_TradesAreCloseTransitions ==
  Len(completed_trades) = Cardinality(CloseTransitions)

\* a finished run that reversed a position and ends with a position open
C4_Witness ==
  /\ pc = "done"
  /\ Len(completed_trades) > 0
  /\ position # 0
  /\ \E i \in CloseTransitions : position_history[i].position # 0

\* the total profit, total loss and profit factor of a finished run
TotalProfit == result[1].summary.total_profit
TotalLoss == result[1].summary.total_loss
ReportedProfitFactor == result[1].summary.profit_factor
Finished == pc = "done" /\ result # None /\ result[1] # EmptyResult

\* C5 as amended: the profit factor is the "inf" sentinel exactly when the
\* total loss is 0 and the total profit is above 0; it is 0 when both are 0,
\* and also when the total profit is 0 and the total loss is not; with a
\* total loss other than 0 it is |total_profit / total_loss| rounded to 2
\* places.
C5_ProfitFactor ==
  Finished =>
    /\ ReportedProfitFactor = Inf
         <=> (TotalLoss = DZero /\ DGt(TotalProfit, DZero))
    /\ (TotalProfit = DZero /\ TotalLoss = DZero)
         => ReportedProfitFactor = DZero
    /\ TotalProfit = DZero => ReportedProfitFactor = DZero
    /\ TotalLoss # DZero
         => ReportedProfitFactor
              = DAbs(DDivRound(TotalProfit, TotalLoss, 2))

\* a finished run whose trades all lost: the total profit is 0, the total
\* loss is not, and the profit factor is 0
C5_Witness ==
  /\ Finished
  /\ TotalProfit = DZero
  /\ DLt(TotalLoss, DZero)
  /\ ReportedProfitFactor = DZero

\* C5 as stated: the profit factor is "inf" exactly when the total loss is 0
\* and the total profit is above 0, it is 0 exactly when both are 0, and it is
\* |total_profit / total_loss| otherwise.
C5_AsStated ==
  Finished =>
    /\ ReportedProfitFactor = Inf
         <=> (TotalLoss = DZero /\ DGt(TotalProfit, DZero))
    /\ ReportedProfitFactor = DZero
         <=> (TotalProfit = DZero /\ TotalLoss = DZero)

(***************************************************************************)
(* The position series of the backtest (strategy.py) and of the optimizer  *)
(* (optimizer.py).  A frame is a sequence of rows, a column a sequence of  *)
(* values.                                                                 *)
(***************************************************************************)
\* the rows that the positions are computed from in the two-request runs
MaxRows == 3

StrategySentiments == {D(-5, 1), D(5, 1)}
StrategyReturns == {D(1, 2)}
Returns == {D(25, 2), D(-2, 1)}

\* the frames of n rows with sentiments from sents and returns from rets;
\* the first row has no return
Frames(n, sents, rets) ==
  {[i \in 1..n |-> [date |-> i,
                    returns |-> IF i = 1 THEN NaN ELSE r[i],
                    sentiment_avg_5d |-> a[i],
                    volatility_5d |-> v[i]]] :
     a \in [1..n -> sents], v \in VolatilityColumns(n), r \in [1..n -> rets]}

VolatilityColumn(frame) == [i \in 1..Len(frame) |-> frame[i].volatility_5d]

SelectSignalAtOrBelow(row, vol_threshold, sent_threshold) ==
  IF DGt(row.sentiment_avg_5d, sent_threshold)
     /\ DLe(row.volatility_5d, vol_threshold) THEN 1
  ELSE IF DLt(row.sentiment_avg_5d, DNeg(sent_threshold)) THEN -1
  ELSE 0

SelectSignalFlatOnNa(row, vol_threshold, sent_threshold) ==
  IF IsNa(row.sentiment_avg_5d) \/ IsNa(row.volatility_5d) THEN 0
  ELSE IF DGt(row.sentiment_avg_5d, sent_threshold)
          /\ DLt(row.volatility_5d, vol_threshold) THEN 1
  ELSE IF DLt(row.sentiment_avg_5d, DNeg(sent_threshold)) THEN -1
  ELSE 0

\* strategy.py lines 44-52: np.select takes the first condition that holds,
\* and a comparison with NaN does not hold
SelectSignal(row, vol_threshold, sent_threshold) ==
  IF DGt(row.sentiment_avg_5d, sent_threshold)
     /\ DLt(row.volatility_5d, vol_threshold) THEN 1
  ELSE IF DLt(row.sentiment_avg_5d, DNeg(sent_threshold)) THEN -1
  ELSE 0

\* optimizer.py lines 96-101: np.where(long, 1, np.where(short, -1, 0))
WhereSignal(row, vol_threshold, sent_threshold) ==
  IF DGt(row.sentiment_avg_5d, sent_threshold)
     /\ DLt(row.volatility_5d, vol_threshold) THEN 1
  ELSE IF DLt(row.sentiment_avg_5d, DNeg(sent_threshold)) THEN -1
  ELSE 0

ShiftByNone(column) == [i \in 1..Len(column) |-> Some(column[i])]

\* Series.shift(1): every value moves one row down, the first row is left
\* without a value and the last value is dropped
Shift(column) ==
  [i \in 1..Len(column) |-> IF i = 1 THEN None ELSE Some(column[i - 1])]

\* Series.fillna(value)
FillNa(column, value) ==
  [i \in 1..Len(column) |->
     IF column[i] = None THEN value ELSE column[i][1]]

\* strategy.py lines 41-55, for the threshold computed on line 41
StrategyAt(frame, vol_threshold, sent_threshold) ==
  [volatility_threshold |-> vol_threshold,
   position |->
     FillNa(Shift([i \in 1..Len(frame) |->
                     SelectSignal(frame[i], vol_threshold, sent_threshold)]),
            0)]

\* generate_sentiment_strategy: an empty frame is returned as it is
\* (lines 37-38), without a threshold
generate_sentiment_strategy(frame, sent_threshold, vol_percentile) ==
  IF Len(frame) = 0 THEN [volatility_threshold |-> NaN, position |-> <<>>]
  ELSE StrategyAt(frame,
                  VolatilityThreshold(VolatilityColumn(frame), vol_percentile),
                  sent_threshold)

PrependNothing(column) == column

\* optimizer.py line 104: np.concatenate([[0], position[:-1]])
PrependZero(column) == <<0>> \o SubSeq(column, 1, Len(column) - 1)

\* optimizer.py lines 91-104, for the threshold computed on line 91
CellPositionAt(frame, vol_threshold, sent_threshold) ==
  [volatility_threshold |-> vol_threshold,
   position |->
     PrependZero([i \in 1..Len(frame) |->
                    WhereSignal(frame[i], vol_threshold, sent_threshold)])]

CellPosition(frame, sent_threshold, vol_percentile) ==
  CellPositionAt(frame,
                 VolatilityThreshold(VolatilityColumn(frame), vol_percentile),
                 sent_threshold)

\* the variables of the day-by-day replay, which these runs leave alone
NoReplay ==
  /\ volatility_5d = <<>>
  /\ volatility_threshold = NaN
  /\ cash = DZero /\ position = 0 /\ shares = DZero
  /\ prev_portfolio_value = DZero /\ peak_value = DZero
  /\ open_trade = None
  /\ simulation_states = <<>> /\ completed_trades = <<>>
  /\ daily_pnl = <<>> /\ position_history = <<>>
  /\ result = None

\* the frames of a request
StrategyFrames ==
  UNION {Frames(n, StrategySentiments, StrategyReturns) : n \in 0..MaxRows}

StrategyInit ==
  /\ df \in StrategyFrames
  /\ initial_capital \in Capitals
  /\ transaction_cost \in {D(1, 3)}
  /\ sentiment_threshold \in SentimentThresholds
  /\ volatility_percentile \in VolatilityPercentiles
  /\ NoReplay
  /\ pc = "request"
  /\ strategy = None /\ cell = None /\ previous = None /\ backtest = None
  /\ NoSearch
  /\ NoApi

\* a request on an empty frame: generate_sentiment_strategy returns it, and
\* optimize_strategy returns before it evaluates a cell (lines 296-298)
GenerateEmpty ==
  /\ pc = "request"
  /\ Len(df) = 0
  /\ strategy' = Some(generate_sentiment_strategy(df, sentiment_threshold,
                                                  volatility_percentile))
  /\ pc' = "served"
  /\ UNCHANGED <<df, volatility_5d, args, api, volatility_threshold, loop, logs,
                 result, cell, previous, backtest, search>>

\* a request: the positions of generate_sentiment_strategy and of the cell
\* of the optimizer with the same parameters
Generate ==
  /\ pc = "request"
  /\ Len(df) > 0
  /\ strategy' = Some(generate_sentiment_strategy(df, sentiment_threshold,
                                                  volatility_percentile))
  /\ cell' = Some(CellPosition(df, sentiment_threshold, volatility_percentile))
  /\ pc' = "served"
  /\ UNCHANGED <<df, volatility_5d, args, api, volatility_threshold, loop, logs,
                 result, previous, backtest, search>>

\* the second request: the feature series is loaded again on every request
\* (strategy.py line 35); its first row is the one of the request before,
\* any later row may be new.  Two requests are compared.
GenerateAgain(frame) ==
  /\ pc = "served"
  /\ previous = None
  /\ Len(df) > 0 /\ Len(frame) > 0
  /\ frame[1] = df[1]
  /\ previous' = Some([df |-> df, strategy |-> strategy[1], cell |-> cell[1]])
  /\ df' = frame
  /\ strategy' = Some(generate_sentiment_strategy(frame, sentiment_threshold,
                                                  volatility_percentile))
  /\ cell' = Some(CellPosition(frame, sentiment_threshold,
                               volatility_percentile))
  /\ UNCHANGED <<volatility_5d, args, api, volatility_threshold, loop, logs,
                 result, pc, backtest, search>>

StrategyNext ==
  \/ GenerateEmpty
  \/ Generate
  \/ \E frame \in StrategyFrames : GenerateAgain(frame)

SpecStrategy == StrategyInit /\ [][StrategyNext]_vars

(***************************************************************************)
(* Properties of the position series.                                      *)
(***************************************************************************)
Served == pc = "served" /\ strategy # None

\* C6: in generate_sentiment_strategy and in _run_strategy_backtest the
\* position series has one entry per row, the first position is flat, and
\* the position of every later row t is the signal of row t - 1.
C6_PositionIsSignalShifted ==
  /\ Served =>
       /\ Len(strategy[1].position) = Len(df)
       /\ \A t \in 1..Len(df) :
            strategy[1].position[t] =
              IF t = 1 THEN 0
              ELSE SelectSignal(df[t - 1], strategy[1].volatility_threshold,
                                sentiment_threshold)
  /\ cell # None =>
       /\ Len(cell[1].position) = Len(df)
       /\ \A t \in 1..Len(df) :
            cell[1].position[t] =
              IF t = 1 THEN 0
              ELSE WhereSignal(df[t - 1], cell[1].volatility_threshold,
                               sentiment_threshold)

\* both series hold a long position on the second row and a short position
\* on the third, from a long first row and a short second row
C6_Witness ==
  /\ Served /\ cell # None /\ Len(df) >= 3
  /\ strategy[1].position[2] = 1 /\ strategy[1].position[3] = -1
  /\ cell[1].position[2] = 1 /\ cell[1].position[3] = -1
  /\ SelectSignal(df[3], strategy[1].volatility_threshold,
                  sentiment_threshold) # -1

\* the rows before row t are the same in the two requests
AgreeBefore(t) == \A j \in 1..(t - 1) : previous[1].df[j] = df[j]

\* the rows that both requests have
BothRows == 1..Min(Len(df), Len(previous[1].df))

\* C7 as amended: two feature series that agree on all rows before row t
\* give the same position on row t when the volatility threshold of the two
\* runs, a percentile of the whole volatility column, is the same; the
\* position of row t is a function of the rows before t and of that
\* threshold.
C7_NoLookAheadButThreshold ==
  previous # None =>
    \A t \in BothRows :
      AgreeBefore(t) =>
        /\ previous[1].strategy.volatility_threshold
             = strategy[1].volatility_threshold
             => previous[1].strategy.position[t] = strategy[1].position[t]
        /\ previous[1].cell.volatility_threshold = cell[1].volatility_threshold
             => previous[1].cell.position[t] = cell[1].position[t]

\* two requests whose third rows differ, with the same threshold and the
\* same long position on the third row
C7_Witness ==
  /\ previous # None
  /\ Len(df) >= 3 /\ Len(previous[1].df) >= 3
  /\ AgreeBefore(3)
  /\ previous[1].df[3] # df[3]
  /\ previous[1].strategy.volatility_threshold
       = strategy[1].volatility_threshold
  /\ strategy[1].position[3] = 1
  /\ cell[1].position[3] = 1

\* C7 as stated: two feature series that agree on all rows before row t give
\* the same position on row t.
C7_AsStated ==
  previous # None =>
    \A t \in BothRows :
      AgreeBefore(t) =>
        /\ previous[1].strategy.position[t] = strategy[1].position[t]
        /\ previous[1].cell.position[t] = cell[1].position[t]

(***************************************************************************)
(* run_backtest (backtest.py).                                             *)
(***************************************************************************)
ReturnsColumn(frame) == [i \in 1..Len(frame) |-> frame[i].returns]

\* line 52: returns.fillna(0)
FillNaN(column, value) ==
  [i \in 1..Len(column) |-> IF IsNa(column[i]) THEN value ELSE column[i]]

\* Series.diff(): the difference to the row before, no value on the first row
Diff(column) ==
  [i \in 1..Len(column) |->
     IF i = 1 THEN None ELSE Some(column[i] - column[i - 1])]

Abs(n) == IF n < 0 THEN -n ELSE n

\* line 61: position.diff().fillna(0).abs()
PositionChange(column) ==
  [i \in 1..Len(column) |-> Abs(FillNa(Diff(column), 0)[i])]

MarketReturn(pos, ret, change, cost) == ret

StrategyReturnBySize(pos, ret, change, cost) ==
  DSub(DMul(D(pos, 0), ret), DMul(D(change, 0), cost))

\* lines 58-72: position * return, less the cost on a row where the position
\* changes
StrategyReturn(pos, ret, change, cost) ==
  DSub(DMul(D(pos, 0), ret), IF change > 0 THEN cost ELSE DZero)

RECURSIVE CumProdFrom(_, _, _)
CumProdFrom(column, i, out) ==
  IF i > Len(column) THEN out
  ELSE CumProdFrom(column, i + 1,
                   Append(out, DMul(IF i = 1 THEN DOne ELSE out[i - 1],
                                    DAdd(DOne, column[i]))))

\* lines 75-76: (1 + column).cumprod()
CumProd(column) == CumProdFrom(column, 1, <<>>)

\* lines 79-88: the rows returned, rounded
BacktestRows(frame, returns, strategy_returns, cumulative_strategy, capital) ==
  [i \in 1..Len(frame) |->
     [date |-> frame[i].date,
      market_returns |-> DRound(returns[i], 6),
      strategy_returns |-> DRound(strategy_returns[i], 6),
      portfolio_value |-> DRound(DMul(capital, cumulative_strategy[i]), 2)]]

BacktestOn(frame, returns, strategy_returns, capital) ==
  BacktestRows(frame, returns, strategy_returns, CumProd(strategy_returns),
               capital)

\* lines 52-72
BacktestWith(frame, pos, change, returns, cost, capital) ==
  BacktestOn(frame, returns,
             [i \in 1..Len(frame) |->
                StrategyReturn(pos[i], returns[i], change[i], cost)],
             capital)

\* lines 45-90, on the frame and the positions of generate_sentiment_strategy
BacktestOf(frame, pos, cost, capital) ==
  IF Len(frame) = 0 THEN <<>>
  ELSE BacktestWith(frame, pos, PositionChange(pos),
                    FillNaN(ReturnsColumn(frame), DZero), cost, capital)

\* the feature series of the scenario of 12 days
ScenarioSeries ==
  [i \in 1..12 |-> [date |-> i, returns |-> D(1, 2),
                    sentiment_avg_5d |-> D(5, 1), volatility_5d |-> DZero]]

BacktestFrames ==
  UNION {Frames(n, Sentiments, Returns) : n \in 0..MaxRows}
    \cup {ScenarioSeries}

BacktestInit ==
  /\ df \in BacktestFrames
  /\ initial_capital \in Capitals
  /\ transaction_cost \in TransactionCosts
  /\ sentiment_threshold \in SentimentThresholds
  /\ volatility_percentile \in VolatilityPercentiles
  /\ NoReplay
  /\ pc = "request"
  /\ strategy = None /\ cell = None /\ previous = None /\ backtest = None
  /\ NoSearch
  /\ NoApi

\* run_backtest on an empty feature series: the empty frame (lines 45-46)
RunBacktestEmpty ==
  /\ pc = "request"
  /\ Len(df) = 0
  /\ strategy' = Some(generate_sentiment_strategy(df, sentiment_threshold,
                                                  volatility_percentile))
  /\ backtest' = Some(<<>>)
  /\ pc' = "served"
  /\ UNCHANGED <<df, volatility_5d, args, api, volatility_threshold, loop, logs,
                 result, cell, previous, search>>

\* run_backtest: the strategy (lines 39-43), then the returns and the value
RunBacktest ==
  /\ pc = "request"
  /\ Len(df) > 0
  /\ \E generated \in {generate_sentiment_strategy(df, sentiment_threshold,
                                                   volatility_percentile)} :
       /\ strategy' = Some(generated)
       /\ backtest' = Some(BacktestOf(df, generated.position,
                                      transaction_cost, initial_capital))
  /\ pc' = "served"
  /\ UNCHANGED <<df, volatility_5d, args, api, volatility_threshold, loop, logs,
                 result, cell, previous, search>>

BacktestNext == RunBacktestEmpty \/ RunBacktest

SpecBacktest == BacktestInit /\ [][BacktestNext]_vars

(***************************************************************************)
(* Properties of run_backtest.                                             *)
(***************************************************************************)
BacktestServed == pc = "served" /\ backtest # None

\* the signal is flat on every row of the feature series
AllFlat ==
  \A i \in 1..Len(df) :
    SelectSignal(df[i], strategy[1].volatility_threshold,
                 sentiment_threshold) = 0

\* C9: with a transaction cost of 0 and a feature series whose signal is
\* flat on every row, run_backtest returns a strategy return of 0 and a
\* portfolio value equal to the initial capital on every row.
C9_FlatAtNoCost ==
  (BacktestServed /\ transaction_cost = DZero /\ AllFlat) =>
    /\ Len(backtest[1]) = Len(df)
    /\ \A i \in 1..Len(df) :
         /\ backtest[1][i].strategy_returns = DZero
         /\ backtest[1][i].portfolio_value = initial_capital

\* a flat run at no cost over rows whose market return is not 0, one of them
\* with a sentiment above the threshold
C9_Witness ==
  /\ BacktestServed /\ transaction_cost = DZero /\ AllFlat
  /\ Len(df) >= 3
  /\ \E i \in 1..Len(df) : backtest[1][i].market_returns # DZero
  /\ \E i \in 1..Len(df) : DGt(df[i].sentiment_avg_5d, sentiment_threshold)

InScenario ==
  /\ BacktestServed
  /\ df = ScenarioSeries
  /\ transaction_cost = DZero
  /\ sentiment_threshold = D(2, 1)

\* C10 as amended: in the scenario of 12 days (sentiment_avg_5d 0.5 above
\* the threshold 0.2, volatility_5d 0 and a return of 0.01 on every day, no
\* transaction cost) the volatility threshold is 0, no volatility is below
\* it, so the signal is flat on every day, the position is 0 on every day
\* and the portfolio value is the initial capital on every day.
C10_ScenarioStaysFlat ==
  InScenario =>
    /\ strategy[1].volatility_threshold = DZero
    /\ \A i \in 1..12 :
         /\ SelectSignal(df[i], strategy[1].volatility_threshold,
                         sentiment_threshold) = 0
         /\ strategy[1].position[i] = 0
         /\ backtest[1][i].strategy_returns = DZero
         /\ backtest[1][i].portfolio_value = initial_capital

\* the backtest of the scenario has been run
C10_Witness == InScenario /\ Len(backtest[1]) = 12

RECURSIVE Compound(_, _)
\* capital * 1.01^n
Compound(capital, n) ==
  IF n = 0 THEN capital ELSE DMul(Compound(capital, n - 1), D(101, 2))

\* C10 as stated: in the scenario the signal is long on every day, the
\* position is 0 on day 1 and 1 from day 2 on, and the portfolio value is
\* multiplied by 1.01 on each day from day 2 on.
C10_AsStated ==
  InScenario =>
    /\ \A i \in 1..12 :
         SelectSignal(df[i], strategy[1].volatility_threshold,
                      sentiment_threshold) = 1
    /\ strategy[1].position[1] = 0
    /\ backtest[1][1].portfolio_value = initial_capital
    /\ \A i \in 2..12 :
         /\ strategy[1].position[i] = 1
         /\ backtest[1][i].portfolio_value
              = DRound(Compound(initial_capital, i - 1), 2)

(***************************************************************************)
(* optimize_strategy (optimizer.py): the grid search.                      *)
(***************************************************************************)
\* the grids searched: (start, stop, step) of the sentiment threshold and of
\* the volatility percentile
SentimentRanges == {<<D(2, 1), D(6, 1), D(4, 1)>>, <<D(2, 1), D(5, 1), D(4, 1)>>}
VolatilityRanges ==
  {<<D(20, 0), D(80, 0), D(60, 0)>>, <<D(20, 0), D(205, 1), D(5, 1)>>}

RECURSIVE ArangeFrom(_, _, _, _)
ArangeNext(start, stop, step, i, value) ==
  IF DLt(value, stop) THEN <<value>> \o ArangeFrom(start, stop, step, i + 1)
  ELSE <<>>

ArangeFrom(start, stop, step, i) ==
  ArangeNext(start, stop, step, i, DAdd(start, DMul(D(i, 0), step)))

\* np.arange(start, stop, step) for a step above 0: start + i * step for
\* every i from 0 on with start + i * step < stop
Arange(start, stop, step) == ArangeFrom(start, stop, step, 0)

\* astype(int) of a whole number that is not negative
AsInt(x) == NToInt(x.dig)

\* lines 304-308 and 316: the sentiment thresholds of the grid
SentimentValues(range) ==
  [i \in 1..Len(Arange(range[1], DAdd(range[2], DMul(range[3], D(5, 1))),
                       range[3])) |->
     DRound(DAdd(range[1], DMul(D(i - 1, 0), range[3])), 2)]

\* lines 309-313 and 317: the volatility percentiles of the grid
VolatilityValues(range) ==
  [i \in 1..Len(Arange(range[1], DAdd(range[2], DMul(range[3], D(5, 1))),
                       range[3])) |->
     AsInt(DRound(DAdd(range[1], DMul(D(i - 1, 0), range[3])), 0))]

\* lines 321-322: the cells in the order of the two loops
GridOf(sentiment_values, volatility_values) ==
  [k \in 1..(Len(sentiment_values) * Len(volatility_values)) |->
     <<sentiment_values[((k - 1) \div Len(volatility_values)) + 1],
       volatility_values[((k - 1) % Len(volatility_values)) + 1]>>]

GridCells(srange, vrange) ==
  GridOf(SentimentValues(srange), VolatilityValues(vrange))

\* line 111: np.abs(np.diff(position, prepend=0))
PositionChanges(column) ==
  [i \in 1..Len(column) |->
     Abs(column[i] - (IF i = 1 THEN 0 ELSE column[i - 1]))]

\* lines 107-113: position * return, less the cost on a row where the
\* position changes
CellReturn(pos, ret, change, cost) ==
  DSub(DMul(D(pos, 0), ret), IF change > 0 THEN cost ELSE DZero)

RECURSIVE MaxDrawdownFrom(_, _, _, _)
MaxDrawdownStep(cumulative, i, peak, drawdown, max_dd) ==
  MaxDrawdownFrom(cumulative, i + 1, peak,
                  IF DLt(drawdown, max_dd) THEN drawdown ELSE max_dd)

MaxDrawdownAt(cumulative, i, peak, max_dd) ==
  MaxDrawdownStep(cumulative, i, peak,
                  IF DGt(peak, DZero)
                    THEN DDiv(DSub(cumulative[i], peak), peak) ELSE DZero,
                  max_dd)

\* lines 60-65: the loop over the cumulative returns
MaxDrawdownFrom(cumulative, i, peak, max_dd) ==
  IF i > Len(cumulative) THEN max_dd
  ELSE MaxDrawdownAt(cumulative, i,
                     IF DGt(cumulative[i], peak) THEN cumulative[i] ELSE peak,
                     max_dd)

_compute_max_drawdown(cumulative) ==
  IF Len(cumulative) = 0 THEN DZero
  ELSE MaxDrawdownFrom(cumulative, 1, cumulative[1], DZero)

\* the Sharpe ratios that stand for the ratios above and below 0
PositiveSharpes == {D(75, 2), D(15, 1)}
NegativeSharpes == {D(-125, 2)}
Sharpes == {DZero} \cup PositiveSharpes \cup NegativeSharpes

SumOfSquares(xs) == DSum([i \in 1..Len(xs) |-> DMul(xs[i], xs[i])])

\* n * sum(x^2) - sum(x)^2, which is n * (n - 1) times the sample variance
ScaledVariance(xs) ==
  DSub(DMul(D(Len(xs), 0), SumOfSquares(xs)), DMul(DSum(xs), DSum(xs)))

\* np.std(returns, ddof=1) * np.sqrt(trading_days): undefined (NaN) for a
\* series of fewer than two returns, 0 for equal returns, above 0 otherwise
AnnualizedVolatility(xs) ==
  IF Len(xs) < 2 THEN "nan"
  ELSE IF DGt(ScaledVariance(xs), DZero) THEN "positive"
  ELSE "zero"

VolatilityAboveZeroAlways(xs) == TRUE

\* if annualized_volatility > 0, which is false for NaN
VolatilityAboveZero(xs) == AnnualizedVolatility(xs) = "positive"

\* trading_days / n_periods raises for a series of no periods
ZeroDivisionError == [raised |-> "ZeroDivisionError"]

\* the ratio as it is computed after the guard for the empty series.  With a
\* volatility above 0 the ratio takes a power and a square root; it is a
\* value with the sign of the total return, one value for one series.
GuardedSharpes(returns, total_return) ==
  IF Len(returns) = 0 THEN {ZeroDivisionError}
  ELSE IF ~VolatilityAboveZero(returns) THEN {DZero}
  ELSE IF DGt(total_return, DZero) THEN PositiveSharpes
  ELSE IF DLt(total_return, DZero) THEN NegativeSharpes
  ELSE {DZero}

\* _compute_sharpe_ratio: 0 for an empty series (lines 29-30), otherwise the
\* guarded ratio (lines 32-41)
SharpeRatios(returns, total_return) ==
  IF Len(returns) = 0 THEN {DZero}
  ELSE GuardedSharpes(returns, total_return)

\* lines 107-123 of _run_strategy_backtest
CellOf(pos, changes, strategy_returns, cumulative_returns) ==
  [position |-> pos,
   position_changes |-> changes,
   strategy_returns |-> strategy_returns,
   total_return |->
     DSub(cumulative_returns[Len(cumulative_returns)], DOne),
   max_drawdown |-> _compute_max_drawdown(cumulative_returns)]

CellOn(pos, changes, strategy_returns) ==
  CellOf(pos, changes, strategy_returns, CumProd(strategy_returns))

CellWith(pos, changes, returns, cost) ==
  CellOn(pos, changes,
         [i \in 1..Len(pos) |->
            CellReturn(pos[i], returns[i], changes[i], cost)])

CellAt(frame, pos, cost) ==
  CellWith(pos, PositionChanges(pos), FillNaN(ReturnsColumn(frame), DZero),
           cost)

\* lines 90-130 of _run_strategy_backtest, on a frame that is not empty
CellLocals(frame, sent_threshold, vol_percentile, cost) ==
  CellAt(frame, CellPosition(frame, sent_threshold, vol_percentile).position,
         cost)

\* lines 132-140: the result of a cell.  annual_volatility_pct, a square
\* root that nothing else reads, is left out.
CellResult(locals, sent_threshold, vol_percentile, sharpe) ==
  [sentiment_threshold |-> sent_threshold,
   volatility_percentile |-> vol_percentile,
   sharpe_ratio |-> DRound(sharpe, 4),
   total_return_pct |-> DRound(DMul(locals.total_return, Hundred), 2),
   max_drawdown_pct |-> DRound(DMul(locals.max_drawdown, Hundred), 2),
   num_trades |->
     Cardinality({i \in 1..Len(locals.position_changes) :
                    locals.position_changes[i] > 0})]

\* the orders of n rows
Orders(n) ==
  {order \in [1..n -> 1..n] :
     \A i, j \in 1..n : i # j => order[i] # order[j]}

\* line 333: sort_values("sharpe_ratio", ascending=False) sorts with the
\* default kind, quicksort, which is not stable: the rows come out by Sharpe
\* ratio from high to low, rows of equal ratio in any order
SortedOrders(rows) ==
  {order \in Orders(Len(rows)) :
     \A i \in 1..(Len(rows) - 1) :
       DGe(rows[order[i]].sharpe_ratio, rows[order[i + 1]].sharpe_ratio)}

\* lines 336-374: the result of the search.  stable_regions and
\* parameter_sensitivity, computed from the unsorted results, are left out.
OptimizationResult(sorted) ==
  [best_parameters |->
     [sentiment_threshold |-> sorted[1].sentiment_threshold,
      volatility_percentile |-> sorted[1].volatility_percentile],
   best_sharpe |-> sorted[1].sharpe_ratio,
   best_total_return_pct |-> sorted[1].total_return_pct,
   best_max_drawdown_pct |-> sorted[1].max_drawdown_pct,
   top_10 |-> SubSeq(sorted, 1, Min(10, Len(sorted))),
   full_results |-> sorted,
   total_combinations |-> Len(sorted)]

OptimizerFrames ==
  UNION {Frames(n, StrategySentiments, Returns) : n \in 0..MaxRows}

OptimizerInit ==
  /\ df \in OptimizerFrames
  /\ initial_capital \in Capitals
  /\ transaction_cost \in TransactionCosts
  /\ sentiment_threshold \in SentimentThresholds
  /\ volatility_percentile \in VolatilityPercentiles
  /\ NoReplay
  /\ pc = "request"
  /\ strategy = None /\ cell = None /\ previous = None /\ backtest = None
  /\ sentiment_range \in SentimentRanges
  /\ volatility_range \in VolatilityRanges
  /\ results = <<>>
  /\ sharpe_memo = {}
  /\ NoApi

\* lines 296-298: an empty feature series gives the empty result
OptimizeEmpty ==
  /\ pc = "request"
  /\ Len(df) = 0
  /\ result' = Some(EmptyResult)
  /\ pc' = "done"
  /\ UNCHANGED <<df, volatility_5d, args, api, volatility_threshold, loop, logs,
                 batch>>

\* lines 321-329: one iteration of the loops, on the next cell of the grid
EvaluateCell ==
  /\ pc = "request"
  /\ Len(df) > 0
  /\ \E grid \in {GridCells(sentiment_range, volatility_range)} :
       /\ Len(results) < Len(grid)
       /\ \E params \in {grid[Len(results) + 1]} :
          \E locals \in {CellLocals(df, params[1], params[2],
                                    transaction_cost)} :
          \E sharpe \in SharpeRatios(locals.strategy_returns,
                                     locals.total_return) :
            /\ \A m \in sharpe_memo :
                 m[1] = locals.strategy_returns => m[2] = sharpe
            /\ sharpe_memo' =
                 sharpe_memo \cup {<<locals.strategy_returns, sharpe>>}
            /\ cell' = Some(locals)
            /\ results' =
                 Append(results,
                        CellResult(locals, params[1], params[2], sharpe))
  /\ UNCHANGED <<df, volatility_5d, args, api, volatility_threshold, loop, logs,
                 result, pc, strategy, previous, backtest, sentiment_range,
                 volatility_range>>

\* lines 332-374: the results are sorted and the best row is reported
Rank ==
  /\ pc = "request"
  /\ Len(df) > 0
  /\ Len(results) = Len(GridCells(sentiment_range, volatility_range))
  /\ \E order \in SortedOrders(results) :
       result' = Some(OptimizationResult([i \in 1..Len(results) |->
                                            results[order[i]]]))
  /\ pc' = "done"
  /\ UNCHANGED <<df, volatility_5d, args, api, volatility_threshold, loop, logs,
                 batch>>

OptimizerNext == OptimizeEmpty \/ EvaluateCell \/ Rank

SpecOptimizer == OptimizerInit /\ [][OptimizerNext]_vars

(***************************************************************************)
(* Properties of the grid search.                                          *)
(***************************************************************************)
Optimized == pc = "done" /\ result # None /\ result[1] # EmptyResult

\* the cells, by their place in the enumeration, whose Sharpe ratio is the
\* highest of the grid
MaxSharpeCells ==
  {k \in 1..Len(results) :
     \A j \in 1..Len(results) :
       DGe(results[k].sharpe_ratio, results[j].sharpe_ratio)}

ParametersOf(row) ==
  [sentiment_threshold |-> row.sentiment_threshold,
   volatility_percentile |-> row.volatility_percentile]

\* C8 as stated: best_parameters is the cell with the highest Sharpe ratio
\* of the grid, and among several such cells the first one enumerated.
C8_AsStated ==
  Optimized =>
    result[1].best_parameters = ParametersOf(results[SetMin(MaxSharpeCells)])

\* what the search does guarantee: best_parameters is one of the cells with
\* the highest Sharpe ratio, and best_sharpe is that ratio
C8_BestIsAMaximum ==
  Optimized =>
    \E k \in MaxSharpeCells :
      /\ result[1].best_parameters = ParametersOf(results[k])
      /\ result[1].best_sharpe = results[k].sharpe_ratio

\* a finished search in which two cells share the highest Sharpe ratio and
\* the one reported is not the first of them
C8_Witness ==
  /\ Optimized
  /\ Cardinality(MaxSharpeCells) >= 2
  /\ result[1].best_parameters # ParametersOf(results[SetMin(MaxSharpeCells)])

(***************************************************************************)
(* Properties of the signal rule.                                          *)
(***************************************************************************)
\* the signal of _generate_signal on row i of the request, under the
\* threshold of the request
LiveSignal(i) ==
  _generate_signal(df[i].sentiment_avg_5d, df[i].volatility_5d,
                   strategy[1].volatility_threshold, sentiment_threshold)

\* a request whose sentiment_avg_5d is -0.5 on every row, with the sentiment
\* threshold 0.2
AllNegative ==
  /\ Served /\ cell # None
  /\ sentiment_threshold = D(2, 1)
  /\ \A i \in 1..Len(df) : df[i].sentiment_avg_5d = D(-5, 1)

SpecifiedSignal(row, vol_threshold, sent_threshold) ==
  IF IsNa(row.sentiment_avg_5d) \/ IsNa(row.volatility_5d) THEN 0
  ELSE IF DGt(row.sentiment_avg_5d, sent_threshold)
          /\ DLt(row.volatility_5d, vol_threshold) THEN 1
  ELSE IF DLt(row.sentiment_avg_5d, DNeg(sent_threshold)) THEN -1
  ELSE 0

\* C12 as stated: _generate_signal, the rule of generate_sentiment_strategy
\* and the rule of _run_strategy_backtest give, on every row, the signal of
\* the one specified rule, which is Flat on a row whose sentiment_avg_5d or
\* volatility_5d is undefined.
C12_AsStated ==
  (Served /\ cell # None) =>
    \A i \in 1..Len(df) :
      /\ LiveSignal(i)
           = SpecifiedSignal(df[i], strategy[1].volatility_threshold,
                             sentiment_threshold)
      /\ SelectSignal(df[i], strategy[1].volatility_threshold,
                      sentiment_threshold)
           = SpecifiedSignal(df[i], strategy[1].volatility_threshold,
                             sentiment_threshold)
      /\ WhereSignal(df[i], cell[1].volatility_threshold, sentiment_threshold)
           = SpecifiedSignal(df[i], cell[1].volatility_threshold,
                             sentiment_threshold)

\* what the three computations do share: _generate_signal follows the
\* specified rule on every row, and the two vectorized rules follow it on
\* every row whose volatility_5d is defined
C12_SameRuleWhereDefined ==
  (Served /\ cell # None) =>
    \A i \in 1..Len(df) :
      /\ LiveSignal(i)
           = SpecifiedSignal(df[i], strategy[1].volatility_threshold,
                             sentiment_threshold)
      /\ ~IsNa(df[i].volatility_5d) =>
           /\ SelectSignal(df[i], strategy[1].volatility_threshold,
                           sentiment_threshold) = LiveSignal(i)
           /\ WhereSignal(df[i], cell[1].volatility_threshold,
                          sentiment_threshold) = LiveSignal(i)

\* a row whose volatility_5d is undefined and whose sentiment is below the
\* negated threshold: _generate_signal gives Flat, the vectorized rules Short
C12_Witness ==
  /\ Served /\ cell # None
  /\ \E i \in 1..Len(df) :
       /\ IsNa(df[i].volatility_5d)
       /\ LiveSignal(i) = 0
       /\ SelectSignal(df[i], strategy[1].volatility_threshold,
                       sentiment_threshold) = -1
       /\ WhereSignal(df[i], cell[1].volatility_threshold,
                      sentiment_threshold) = -1

(***************************************************************************)
(* calculate_performance_metrics (metrics.py), on the rows that run_backtest*)
(* returned.                                                               *)
(***************************************************************************)
StrategyReturnsOf(rows) == [i \in 1..Len(rows) |-> rows[i].strategy_returns]

PortfolioValuesOf(rows) == [i \in 1..Len(rows) |-> rows[i].portfolio_value]

\* line 59: the last portfolio value over the first, less 1
MetricsTotalReturn(values) ==
  DSub(DDiv(values[Len(values)], values[1]), DOne)

RECURSIVE CumMaxFrom(_, _, _)
CumMaxFrom(values, i, out) ==
  IF i > Len(values) THEN out
  ELSE CumMaxFrom(values, i + 1,
                  Append(out, IF i > 1 /\ DGt(out[i - 1], values[i])
                                THEN out[i - 1] ELSE values[i]))

\* line 82: Series.cummax()
CumMax(values) == CumMaxFrom(values, 1, <<>>)

MetricsDrawdowns(values, cumulative_max) ==
  [i \in 1..Len(values) |->
     DDiv(DSub(values[i], cumulative_max[i]), cumulative_max[i])]

\* lines 82-84: the lowest of (value - running maximum) / running maximum
MetricsMaxDrawdown(values) == DMinOf(MetricsDrawdowns(values, CumMax(values)))

\* lines 61-78: the Sharpe ratio of the strategy returns; the function has
\* returned on line 52 when there is no row
MetricsSharpes(rows) ==
  GuardedSharpes(StrategyReturnsOf(rows),
                 MetricsTotalReturn(PortfolioValuesOf(rows)))

\* lines 87-97: the metrics.  annualized_return and annualized_volatility, a
\* power and a square root, are left out.
MetricsOf(rows, sharpe) ==
  IF sharpe = ZeroDivisionError THEN ZeroDivisionError
  ELSE [total_return |->
          DRound(DMul(MetricsTotalReturn(PortfolioValuesOf(rows)), Hundred),
                 2),
        sharpe_ratio |-> DRound(sharpe, 3),
        max_drawdown |->
          DRound(DMul(MetricsMaxDrawdown(PortfolioValuesOf(rows)), Hundred),
                 2),
        trading_days |-> Len(rows)]

\* lines 51-52: no row of the backtest gives the empty dictionary
CalculateMetricsEmpty ==
  /\ pc = "served"
  /\ backtest # None /\ metrics = None
  /\ Len(backtest[1]) = 0
  /\ metrics' = Some(EmptyResult)
  /\ UNCHANGED <<df, volatility_5d, args, volatility_threshold, loop, logs,
                 result, pc, batch, endpoint, response, stability>>

\* lines 54-97: the metrics of the rows of the backtest
CalculateMetrics ==
  /\ pc = "served"
  /\ backtest # None /\ metrics = None
  /\ Len(backtest[1]) > 0
  /\ \E sharpe \in MetricsSharpes(backtest[1]) :
       metrics' = Some(MetricsOf(backtest[1], sharpe))
  /\ UNCHANGED <<df, volatility_5d, args, volatility_threshold, loop, logs,
                 result, pc, batch, endpoint, response, stability>>

(***************************************************************************)
(* The Sharpe ratio as a function of the return series: the series of the  *)
(* optimizer's _compute_sharpe_ratio, and the rows that                    *)
(* calculate_performance_metrics reads, are drawn from the series of up to *)
(* MaxReturns returns.                                                     *)
(***************************************************************************)
MaxReturns == 4

SharpeReturns == {DZero, D(25, 2), D(-2, 1)}

ReturnSeries == UNION {[1..n -> SharpeReturns] : n \in 0..MaxReturns}

\* the rows that run_backtest returns for a series of strategy returns
SeriesRows(series, capital) ==
  IF Len(series) = 0 THEN <<>>
  ELSE BacktestOn([i \in 1..Len(series) |-> [date |-> i]], series, series,
                  capital)

SharpeInit ==
  /\ df = <<>>
  /\ initial_capital \in Capitals
  /\ transaction_cost \in {D(1, 3)}
  /\ sentiment_threshold \in SentimentThresholds
  /\ volatility_percentile \in VolatilityPercentiles
  /\ NoReplay
  /\ pc = "served"
  /\ strategy = None /\ cell = None /\ previous = None
  /\ \E series \in ReturnSeries :
       backtest = Some(SeriesRows(series, initial_capital))
  /\ NoSearch
  /\ NoApi

\* _compute_sharpe_ratio on the series of strategy returns
ComputeSharpe ==
  /\ pc = "served"
  /\ backtest # None /\ cell = None
  /\ \E returns \in {StrategyReturnsOf(backtest[1])} :
     \E total_return \in {IF Len(returns) = 0 THEN DZero
                          ELSE DSub(CumProd(returns)[Len(returns)], DOne)} :
     \E sharpe \in SharpeRatios(returns, total_return) :
       cell' = Some([strategy_returns |-> returns,
                     total_return |-> total_return,
                     sharpe_ratio |-> sharpe])
  /\ UNCHANGED <<df, volatility_5d, args, api, volatility_threshold, loop,
                 logs, result, pc, strategy, previous, backtest, search>>

SharpeNext == ComputeSharpe \/ CalculateMetricsEmpty \/ CalculateMetrics

SpecSharpe == SharpeInit /\ [][SharpeNext]_vars

\* C15: the Sharpe ratio of _compute_sharpe_ratio and of
\* calculate_performance_metrics is 0 whenever the annualized volatility of
\* the return series is 0 or undefined (a series of one return or of none),
\* and neither computation raises, whatever the series.
C15_SharpeGuard ==
  /\ cell # None =>
       /\ cell[1].sharpe_ratio # ZeroDivisionError
       /\ AnnualizedVolatility(cell[1].strategy_returns) # "positive"
            => cell[1].sharpe_ratio = DZero
  /\ metrics # None =>
       /\ metrics[1] # ZeroDivisionError
       /\ (Len(backtest[1]) = 0) <=> (metrics[1] = EmptyResult)
       /\ (Len(backtest[1]) > 0
           /\ AnnualizedVolatility(StrategyReturnsOf(backtest[1]))
                # "positive")
            => metrics[1].sharpe_ratio = DZero

\* both computations have run on a series of equal returns other than 0,
\* whose volatility is 0 and whose total return is not
C15_Witness ==
  /\ cell # None /\ metrics # None
  /\ Len(backtest[1]) >= 2
  /\ AnnualizedVolatility(cell[1].strategy_returns) = "zero"
  /\ cell[1].total_return # DZero
  /\ cell[1].sharpe_ratio = DZero
  /\ metrics[1].sharpe_ratio = DZero

(***************************************************************************)
(* The API layer (main.py): the handlers of /backtest, /metrics, /optimize *)
(* and /live-sim call the function of the core inside try / except, answer *)
(* 500 when it raises, 404 when its result is empty, and return the result *)
(* otherwise.                                                              *)
(***************************************************************************)
\* the longest feature series of a request through the API
MaxApiRows == 2

Endpoints == {"/backtest", "/metrics", "/optimize", "/live-sim"}

ApiFrames ==
  UNION {Frames(n, StrategySentiments, Returns) : n \in 0..MaxApiRows}

\* the function of the core raised
Raised(value) == value = ZeroDivisionError

ResponseNotFoundAsError(raised, empty) ==
  IF raised \/ empty THEN [status_code |-> 500] ELSE [status_code |-> 200]

\* except Exception: 500; an empty result: 404; otherwise the result
Response(raised, empty) ==
  IF raised THEN [status_code |-> 500]
  ELSE IF empty THEN [status_code |-> 404]
  ELSE [status_code |-> 200]

\* /optimize and /live-sim pass no transaction_cost and /optimize no ranges:
\* the defaults of the functions apply
ApiInit ==
  /\ endpoint \in Endpoints
  /\ response = None
  /\ metrics = None
  /\ NoStability
  /\ initial_capital \in Capitals
  /\ sentiment_threshold \in SentimentThresholds
  /\ volatility_percentile \in VolatilityPercentiles
  /\ transaction_cost \in
       IF endpoint \in {"/optimize", "/live-sim"} THEN {D(1, 3)}
       ELSE TransactionCosts
  /\ IF endpoint = "/live-sim"
       THEN /\ df = <<>>
            /\ \E n \in 0..MaxApiRows : volatility_5d \in VolatilityColumns(n)
            /\ pc = "load"
       ELSE /\ df \in ApiFrames
            /\ volatility_5d = <<>>
            /\ pc = "request"
  /\ volatility_threshold = NaN
  /\ cash = DZero /\ position = 0 /\ shares = DZero
  /\ prev_portfolio_value = DZero /\ peak_value = DZero
  /\ open_trade = None
  /\ simulation_states = <<>> /\ completed_trades = <<>>
  /\ daily_pnl = <<>> /\ position_history = <<>>
  /\ result = None
  /\ strategy = None /\ cell = None /\ previous = None /\ backtest = None
  /\ IF endpoint = "/optimize"
       THEN /\ sentiment_range \in SentimentRanges
            /\ volatility_range \in VolatilityRanges
            /\ results = <<>>
            /\ sharpe_memo = {}
       ELSE NoSearch

\* main.py lines 235-254: the answer of /backtest
RespondBacktest ==
  /\ endpoint = "/backtest"
  /\ pc = "served" /\ backtest # None
  /\ response = None
  /\ response' = Some(Response(FALSE, Len(backtest[1]) = 0))
  /\ UNCHANGED <<df, volatility_5d, args, volatility_threshold, loop, logs,
                 result, pc, batch, metrics, endpoint,
                 stability>>

\* main.py lines 301-321: the answer of /metrics
RespondMetrics ==
  /\ endpoint = "/metrics"
  /\ metrics # None
  /\ response = None
  /\ response' = Some(Response(Raised(metrics[1]), metrics[1] = EmptyResult))
  /\ UNCHANGED <<df, volatility_5d, args, volatility_threshold, loop, logs,
                 result, pc, batch, metrics, endpoint,
                 stability>>

\* main.py lines 449-463: the answer of /optimize
RespondOptimize ==
  /\ endpoint = "/optimize"
  /\ pc = "done" /\ result # None
  /\ response = None
  /\ response' = Some(Response(Raised(result[1]), result[1] = EmptyResult))
  /\ UNCHANGED <<df, volatility_5d, args, volatility_threshold, loop, logs,
                 result, pc, batch, metrics, endpoint,
                 stability>>

\* main.py lines 497-516: the answer of /live-sim
RespondLive ==
  /\ endpoint = "/live-sim"
  /\ pc = "done" /\ result # None
  /\ response = None
  /\ response' = Some(Response(Raised(result[1]), result[1] = EmptyResult))
  /\ UNCHANGED <<df, volatility_5d, args, volatility_threshold, loop, logs,
                 result, pc, batch, metrics, endpoint,
                 stability>>

ApiNext ==
  \/ endpoint \in {"/backtest", "/metrics"} /\ RunBacktestEmpty
  \/ endpoint \in {"/backtest", "/metrics"} /\ RunBacktest
  \/ endpoint = "/metrics" /\ CalculateMetricsEmpty
  \/ endpoint = "/metrics" /\ CalculateMetrics
  \/ endpoint = "/optimize" /\ OptimizeEmpty
  \/ endpoint = "/optimize" /\ EvaluateCell
  \/ endpoint = "/optimize" /\ Rank
  \/ endpoint = "/live-sim" /\ LiveEmpty
  \/ endpoint = "/live-sim" /\ LiveStart
  \/ endpoint = "/live-sim" /\ LiveFinish
  \/ endpoint = "/live-sim"
       /\ \E close_price \in Closes, sentiment_avg \in Sentiments :
            LiveDay(close_price, sentiment_avg)
  \/ RespondBacktest
  \/ RespondMetrics
  \/ RespondOptimize
  \/ RespondLive

SpecApi == ApiInit /\ [][ApiNext]_vars

\* the feature series of the request has no row
EmptySeries ==
  IF endpoint = "/live-sim" THEN volatility_5d = <<>> ELSE Len(df) = 0

\* C13: on an empty feature series run_backtest returns no row,
\* calculate_performance_metrics, run_live_simulation and optimize_strategy
\* return the empty dictionary, none of them raises, and the API answers 404,
\* never 500; on a series that is not empty the API answers 200.
C13_EmptyIsNotFound ==
  /\ EmptySeries =>
       /\ backtest # None => backtest[1] = <<>>
       /\ metrics # None => metrics[1] = EmptyResult
       /\ result # None => result[1] = EmptyResult
       /\ response # None => response[1].status_code = 404
  /\ (~EmptySeries /\ response # None) => response[1].status_code = 200

\* /metrics has answered 404 on an empty series, after run_backtest returned
\* no row and calculate_performance_metrics the empty dictionary
C13_Witness ==
  /\ endpoint = "/metrics"
  /\ EmptySeries
  /\ backtest = Some(<<>>)
  /\ metrics = Some(EmptyResult)
  /\ response = Some([status_code |-> 404])

(***************************************************************************)
(* Properties of the logs of the day-by-day replay.                        *)
(***************************************************************************)
\* every entry that log holds stays as it is in the next state
KeptIn(log, next_log) ==
  /\ Len(next_log) >= Len(log)
  /\ \A k \in 1..Len(log) : next_log[k] = log[k]

\* C14: run_live_simulation appends one step per row, in the order of the
\* rows: simulation_states, daily_pnl and position_history have one entry
\* for every row read, and for every row of the series when the run is done;
\* the k-th step has step number k and the k-th entry of each log the date
\* of the k-th row; an entry, once appended, is never changed or removed.
C14_OneStepPerRow ==
  /\ [](/\ Len(simulation_states) = Len(df)
        /\ Len(daily_pnl) = Len(df)
        /\ Len(position_history) = Len(df)
        /\ pc = "done" => Len(df) = Len(volatility_5d)
        /\ \A k \in 1..Len(df) :
             /\ df[k].date = k
             /\ simulation_states[k].step = k
             /\ simulation_states[k].date = df[k].date
             /\ daily_pnl[k].date = df[k].date
             /\ position_history[k].date = df[k].date)
  /\ [][/\ KeptIn(simulation_states, simulation_states')
        /\ KeptIn(daily_pnl, daily_pnl')
        /\ KeptIn(position_history, position_history')
        /\ KeptIn(df, df')]_vars

\* a finished run of three rows with a completed trade
C14_Witness ==
  /\ pc = "done"
  /\ Len(volatility_5d) = 3
  /\ Len(simulation_states) = 3
  /\ Len(completed_trades) > 0

\* the days that reverse a position into the opposite position
Reversals ==
  {k \in 1..Len(simulation_states) :
     /\ PositionAtStart(k) # 0
     /\ simulation_states[k].signal # 0
     /\ simulation_states[k].signal # PositionAtStart(k)}

\* C16: on every day a trade is made exactly when the signal of the day
\* differs from the position held at the start of the day, and the position
\* at the end of the day is the signal of the day; a day that reverses a
\* position appends one completed trade that exits on that day, records an
\* open trade that enters on that day, and ends with shares above 0 and no
\* cash.
C16_ReversalInOneStep ==
  /\ \A k \in 1..Len(simulation_states) :
       /\ simulation_states[k].position.current = simulation_states[k].signal
       /\ position_history[k].position = simulation_states[k].signal
       /\ (simulation_states[k].trade # None)
            <=> (simulation_states[k].signal # PositionAtStart(k))
  /\ \A k \in Reversals :
       /\ Cardinality({i \in 1..Len(completed_trades) :
                         completed_trades[i].exit_date = df[k].date}) = 1
       /\ simulation_states[k].position.entry_date = Some(df[k].date)
       /\ DGt(simulation_states[k].position.shares, DZero)
       /\ simulation_states[k].portfolio.cash = DZero
  /\ (Len(df) > 0 /\ Len(df) \in Reversals) =>
       /\ open_trade # None
       /\ open_trade[1].entry_date = df[Len(df)].date
       /\ open_trade[1].position = position
       /\ DGt(shares, DZero) /\ cash = DZero

\* a day reversed a long position into a short one
C16_Witness ==
  \E k \in Reversals :
    /\ PositionAtStart(k) = 1
    /\ simulation_states[k].signal = -1
    /\ simulation_states[k].position.type = "SHORT"

(***************************************************************************)
(* Properties of the daily pnl, the peak and the drawdown of the replay.   *)
(* The recorded values are rounded to 2 places; two of them are compared   *)
(* within one hundredth.                                                   *)
(***************************************************************************)
WithinCent(x, y) == DLe(DAbs(DSub(x, y)), D(1, 2))

\* the recorded end-of-day value of step k
TotalValue(k) == simulation_states[k].portfolio.total_value

\* the end-of-day value of the day before step k, the initial capital before
\* the first
TotalValueBefore(k) == IF k = 1 THEN initial_capital ELSE TotalValue(k - 1)

\* the hundredths that n rounded values can be off by
Cents(n) == D(n, 2)

\* C17 as stated: the daily pnl recorded for a day is the end-of-day value of
\* that day less the end-of-day value of the day before (the initial capital
\* for the first day), and the daily pnl values of a finished run sum to the
\* final value less the initial capital.
C17_AsStated ==
  /\ \A k \in 1..Len(daily_pnl) :
       /\ WithinCent(daily_pnl[k].pnl,
                     DSub(TotalValue(k), TotalValueBefore(k)))
       /\ WithinCent(simulation_states[k].portfolio.daily_pnl,
                     DSub(TotalValue(k), TotalValueBefore(k)))
  /\ (Finished /\ Len(daily_pnl) > 0) =>
       DLe(DAbs(DSub(DSum([k \in 1..Len(daily_pnl) |-> daily_pnl[k].pnl]),
                     DSub(result[1].final_capital, initial_capital))),
           Cents(Len(daily_pnl)))

\* what the code computes: the daily pnl is the value before the trades of
\* the day less the end-of-day value of the day before, so it leaves out the
\* transaction cost paid on the day; with no transaction cost it is the
\* difference of the end-of-day values
C17_PnlBeforeTrades ==
  transaction_cost = DZero => C17_AsStated

\* a day that opened a position at a cost: its recorded pnl is 0 and its
\* end-of-day value is below the value of the day before
C17_Witness ==
  \E k \in 1..Len(daily_pnl) :
    /\ simulation_states[k].trade # None
    /\ DGt(transaction_cost, DZero)
    /\ daily_pnl[k].pnl = DZero
    /\ DLt(TotalValue(k), TotalValueBefore(k))

\* the recorded peak of step k, and of the step before it (the initial
\* capital before the first)
PeakValue(k) == simulation_states[k].risk.peak_value
PeakValueBefore(k) == IF k = 1 THEN initial_capital ELSE PeakValue(k - 1)

\* C18 as stated: in every step the peak is the larger of the peak before
\* and the end-of-day value recorded in the step, so it is at least that
\* value, and the drawdown is (peak - end-of-day value) / peak, also on a day
\* that traded at a transaction cost.
C18_AsStated ==
  \A k \in 1..Len(simulation_states) :
    /\ PeakValue(k) =
         IF DGt(TotalValue(k), PeakValueBefore(k)) THEN TotalValue(k)
         ELSE PeakValueBefore(k)
    /\ DGe(PeakValue(k), TotalValue(k))
    /\ WithinCent(simulation_states[k].risk.current_drawdown_pct,
                  CurrentDrawdownPct(PeakValue(k), TotalValue(k)))

\* what the code computes: the peak and the drawdown are taken over the
\* value before the trades of the day; the peak is still at least the
\* end-of-day value, and with no transaction cost the two values are the same
C18_PeakBeforeTrades ==
  /\ \A k \in 1..Len(simulation_states) : DGe(PeakValue(k), TotalValue(k))
  /\ transaction_cost = DZero => C18_AsStated

\* a day that traded at a cost: the end-of-day value is below the peak and
\* the recorded drawdown is 0
C18_Witness ==
  \E k \in 1..Len(simulation_states) :
    /\ simulation_states[k].trade # None
    /\ DGt(transaction_cost, DZero)
    /\ DLt(TotalValue(k), PeakValue(k))
    /\ simulation_states[k].risk.current_drawdown_pct = DZero
    /\ DGt(CurrentDrawdownPct(PeakValue(k), TotalValue(k)), D(1, 2))

(***************************************************************************)
(* Properties of the completed trades.  A date is the number of the step.  *)
(***************************************************************************)
\* C19 as amended: a trade that entered on step i and exited on step j has
\* j > i and holding_days = j - i: the days from the entry day through the
\* day before the exit, the entry day counted and the exit day not; it is at
\* least 1.
C19_HoldingDays ==
  \A t \in 1..Len(completed_trades) :
    /\ completed_trades[t].exit_date > completed_trades[t].entry_date
    /\ completed_trades[t].holding_days
         = completed_trades[t].exit_date - completed_trades[t].entry_date
    /\ completed_trades[t].holding_days >= 1

\* a trade that entered on the first day and exited on the third
C19_Witness ==
  \E t \in 1..Len(completed_trades) :
    /\ completed_trades[t].entry_date = 1
    /\ completed_trades[t].exit_date = 3
    /\ completed_trades[t].holding_days = 2

\* C19 as stated: holding_days counts the days from the entry day through
\* the exit day, and is at least 1.
C19_AsStated ==
  \A t \in 1..Len(completed_trades) :
    /\ completed_trades[t].holding_days
         = completed_trades[t].exit_date - completed_trades[t].entry_date + 1
    /\ completed_trades[t].holding_days >= 1

\* the proceeds of selling the shares held at the close of the day that the
\* step appends, net of the transaction cost of the exit
NetProceeds ==
  DSub(DMul(shares, df'[Len(df')].close),
       DMul(DMul(shares, df'[Len(df')].close), transaction_cost))

\* the trade that the step appends to the completed trades
Completed == completed_trades'[Len(completed_trades')]

\* C20: a step that completes a trade records as exit_value the net proceeds
\* of the shares at the exit close, as entry_value the entry value of the
\* open trade, and as profit_loss the net proceeds less that entry value, all
\* rounded to 2 places, so that profit_loss is exit_value - entry_value
\* within a hundredth; when the day ends flat the cash held is the net
\* proceeds, which is entry_value + profit_loss within a hundredth; and a
\* step that opens a position from flat records as entry_value the cash less
\* the entry cost.  The entry cost is not subtracted again at the exit.
C20_RealizedPnl ==
  [][/\ Len(completed_trades') > Len(completed_trades) =>
          /\ Completed.exit_value = DRound(NetProceeds, 2)
          /\ Completed.entry_value = open_trade[1].entry_value
          /\ Completed.profit_loss
               = DRound(DSub(NetProceeds, Completed.entry_value), 2)
          /\ WithinCent(Completed.profit_loss,
                        DSub(Completed.exit_value, Completed.entry_value))
          /\ position' = 0 =>
               /\ cash' = NetProceeds
               /\ WithinCent(cash', DAdd(Completed.entry_value,
                                         Completed.profit_loss))
     /\ (pc = "loop" /\ position = 0 /\ position' # 0) =>
          /\ open_trade'[1].entry_value
               = DRound(DSub(cash, DMul(cash, transaction_cost)), 2)
          /\ open_trade'[1].entry_cost
               = DRound(DMul(cash, transaction_cost), 2)]_vars

\* a day that closed a position to flat at a cost, with a profit or a loss
C20_Witness ==
  /\ Len(completed_trades) > 0
  /\ completed_trades[Len(completed_trades)].exit_date = Len(df)
  /\ position = 0
  /\ DGt(transaction_cost, DZero)
  /\ completed_trades[Len(completed_trades)].profit_loss # DZero
  /\ DGt(completed_trades[Len(completed_trades)].transaction_costs, DZero)

(***************************************************************************)
(* Properties of the returns and of the value of run_backtest.             *)
(***************************************************************************)
\* the return of row t, 0 where the feature series has none
ReturnOn(t) == IF IsNa(df[t].returns) THEN DZero ELSE df[t].returns

\* the position of row t differs from the position of the row before
PositionChangedOn(t) ==
  t > 1 /\ strategy[1].position[t] # strategy[1].position[t - 1]

\* position * return, less the transaction cost on a row that changes the
\* position
NetReturnOn(t) ==
  DSub(DMul(D(strategy[1].position[t], 0), ReturnOn(t)),
       IF PositionChangedOn(t) THEN transaction_cost ELSE DZero)

RECURSIVE GrowthTo(_)
\* the product of 1 + the net return of the rows up to row t
GrowthTo(t) ==
  IF t = 0 THEN DOne ELSE DMul(GrowthTo(t - 1), DAdd(DOne, NetReturnOn(t)))

\* C21: on every row t run_backtest returns as strategy return the position
\* of the row times its return, less the transaction cost when the position
\* differs from the one of the row before (the same cost whatever the size of
\* the change, and none on the first row), rounded to 6 places, and as
\* portfolio value the initial capital times the product of 1 + strategy
\* return over the rows up to t, rounded to 2 places; the portfolio value of
\* the first row is the initial capital.
C21_ReturnsAndValue ==
  (BacktestServed /\ Len(df) > 0) =>
    /\ Len(backtest[1]) = Len(df)
    /\ \A t \in 1..Len(df) :
         /\ backtest[1][t].strategy_returns = DRound(NetReturnOn(t), 6)
         /\ backtest[1][t].portfolio_value
              = DRound(DMul(initial_capital, GrowthTo(t)), 2)
    /\ backtest[1][1].strategy_returns = DZero
    /\ backtest[1][1].portfolio_value = initial_capital

\* a run at a cost that goes from flat to long on the second row and from
\* long to short on the third, and is charged the same cost on both
C21_Witness ==
  /\ BacktestServed /\ Len(df) = 3
  /\ DGt(transaction_cost, DZero)
  /\ strategy[1].position = <<0, 1, -1>>
  /\ backtest[1][2].strategy_returns
       = DSub(df[2].returns, transaction_cost)
  /\ backtest[1][3].strategy_returns
       = DSub(DNeg(df[3].returns), transaction_cost)

(***************************************************************************)
(* Properties of the grid of optimize_strategy.                            *)
(***************************************************************************)
RECURSIVE InclusiveFrom(_, _)
\* the values start, start + step, ... that are not above stop
InclusiveFrom(range, i) ==
  IF DLe(DAdd(range[1], DMul(D(i, 0), range[3])), range[2])
    THEN <<DAdd(range[1], DMul(D(i, 0), range[3]))>>
           \o InclusiveFrom(range, i + 1)
    ELSE <<>>

\* the values of an inclusive range (start, stop, step), ascending
Inclusive(range) == InclusiveFrom(range, 0)

\* stop - start is a multiple of step
StopOnStep(range) ==
  LET values == Inclusive(range) IN values[Len(values)] = range[2]

\* the pair that has place k when the product of two lists of values is
\* enumerated with the first list in the outer loop
PairAt(outer, inner, k) ==
  <<outer[((k - 1) \div Len(inner)) + 1], inner[((k - 1) % Len(inner)) + 1]>>

\* the cell k of the search was evaluated with this pair of parameters
EvaluatedWith(k, pair) ==
  /\ results[k].sentiment_threshold = pair[1]
  /\ D(results[k].volatility_percentile, 0) = pair[2]

Searching == pc \in {"request", "done"} /\ Len(df) > 0 /\ sentiment_range # None

\* C22 as stated: the cells evaluated are, in this order, the pairs of the
\* product of the two inclusive ranges, sentiment in the outer loop and
\* volatility in the inner one, so no pair is evaluated twice; an endpoint
\* that is on the step is evaluated; and total_combinations is the number of
\* sentiment values times the number of volatility values, the length of
\* full_results.
C22_AsStated ==
  Searching =>
    \E outer \in {Inclusive(sentiment_range)} :
    \E inner \in {Inclusive(volatility_range)} :
      /\ Len(results) <= Len(outer) * Len(inner)
      /\ \A k \in 1..Len(results) : EvaluatedWith(k, PairAt(outer, inner, k))
      /\ \A j, k \in 1..Len(results) :
           j # k =>
             \/ results[j].sentiment_threshold # results[k].sentiment_threshold
             \/ results[j].volatility_percentile
                  # results[k].volatility_percentile
      /\ Optimized =>
           /\ result[1].total_combinations = Len(outer) * Len(inner)
           /\ Len(result[1].full_results) = result[1].total_combinations

\* both steps are whole multiples of the place the values are rounded to: a
\* hundredth for the sentiment threshold, 1 for the volatility percentile
StepsOnPlaces ==
  /\ DRound(sentiment_range[3], 2) = sentiment_range[3]
  /\ DRound(sentiment_range[1], 2) = sentiment_range[1]
  /\ DRound(volatility_range[3], 0) = volatility_range[3]
  /\ DRound(volatility_range[1], 0) = volatility_range[1]

\* what the search does: for ranges whose stop is on the step and whose
\* steps are on the places of the rounding, the statement above holds; for
\* every range the cells follow the two loops over the rounded values, and
\* total_combinations counts the cells evaluated
C22_GridOfRoundedValues ==
  /\ (Searching /\ StepsOnPlaces /\ StopOnStep(sentiment_range)
        /\ StopOnStep(volatility_range)) => C22_AsStated
  /\ Searching =>
       \E grid \in {GridCells(sentiment_range, volatility_range)} :
         /\ Len(results) <= Len(grid)
         /\ \A k \in 1..Len(results) :
              /\ results[k].sentiment_threshold = grid[k][1]
              /\ results[k].volatility_percentile = grid[k][2]
         /\ Optimized =>
              /\ result[1].total_combinations = Len(grid)
              /\ Len(result[1].full_results) = Len(grid)

\* a finished search over the volatility range (20, 20.5, 0.5) that
\* evaluated the pair (0.2, 20) twice
C22_Witness ==
  /\ Optimized
  /\ volatility_range = <<D(20, 0), D(205, 1), D(5, 1)>>
  /\ results[1].volatility_percentile = 20
  /\ results[2].volatility_percentile = 20
  /\ results[1].sentiment_threshold = results[2].sentiment_threshold
  /\ result[1].total_combinations = 4

(***************************************************************************)
(* Properties of the ranking of optimize_strategy.                         *)
(***************************************************************************)
\* the place that cell k of the enumeration has when the cells are ordered
\* by Sharpe ratio from high to low and cells of equal ratio stay in the
\* order of the enumeration
StablePlace(k) ==
  Cardinality({j \in 1..Len(results) :
                 \/ DGt(results[j].sharpe_ratio, results[k].sharpe_ratio)
                 \/ /\ results[j].sharpe_ratio = results[k].sharpe_ratio
                    /\ j < k}) + 1

\* how many times a row occurs in a list of rows
Occurrences(row, rows) == Cardinality({i \in 1..Len(rows) : rows[i] = row})

\* top_10 is the head of full_results, and the best cell its first row
HeadOfRanking ==
  /\ result[1].top_10
       = SubSeq(result[1].full_results, 1,
                Min(10, result[1].total_combinations))
  /\ result[1].best_sharpe = result[1].full_results[1].sharpe_ratio
  /\ result[1].best_parameters = ParametersOf(result[1].full_results[1])

\* C23 as stated: full_results holds the cells evaluated, ordered by Sharpe
\* ratio from high to low with cells of equal ratio in the order of the
\* enumeration; top_10 is its first min(10, total_combinations) rows, and
\* best_sharpe and best_parameters are those of its first row.
C23_AsStated ==
  Optimized =>
    /\ Len(result[1].full_results) = Len(results)
    /\ \A k \in 1..Len(results) :
         result[1].full_results[StablePlace(k)] = results[k]
    /\ HeadOfRanking

\* what the search does guarantee: full_results is a permutation of the
\* cells evaluated with the Sharpe ratio never increasing, and top_10 and
\* the best cell are taken from its head
C23_RankedPermutation ==
  Optimized =>
    /\ Len(result[1].full_results) = Len(results)
    /\ \A k \in 1..Len(results) :
         Occurrences(results[k], result[1].full_results)
           = Occurrences(results[k], results)
    /\ \A i \in 1..(Len(results) - 1) :
         DGe(result[1].full_results[i].sharpe_ratio,
             result[1].full_results[i + 1].sharpe_ratio)
    /\ HeadOfRanking

\* a finished search in which two cells of equal Sharpe ratio and different
\* parameters are ranked against the order of their enumeration
C23_Witness ==
  /\ Optimized
  /\ \E j, k \in 1..Len(results) :
       /\ j < k
       /\ results[j].sharpe_ratio = results[k].sharpe_ratio
       /\ ParametersOf(results[j]) # ParametersOf(results[k])
       /\ \E a, b \in 1..Len(results) :
            /\ a < b
            /\ result[1].full_results[a] = results[k]
            /\ result[1].full_results[b] = results[j]
            /\ result[1].full_results[a] # result[1].full_results[b]

(***************************************************************************)
(* _find_stable_regions (optimizer.py).  It reads three columns of the     *)
(* unsorted results: the two parameters and sharpe_ratio.                  *)
(***************************************************************************)
\* lines 208 and 214-215: the key of a row of the results
KeyOf(row) ==
  <<DRound(row.sentiment_threshold, 2), row.volatility_percentile>>

\* line 236: neighbor_key in results_lookup
InLookup(rows, key) == \E i \in 1..Len(rows) : KeyOf(rows[i]) = key

\* lines 206-209: a later row with the same key replaces an earlier one
Lookup(rows, key) ==
  rows[SetMax({i \in 1..Len(rows) : KeyOf(rows[i]) = key})].sharpe_ratio

NeighborsWithoutDiagonals(sent, vol, sentiment_step, volatility_step) ==
  <<<<DSub(sent, sentiment_step), vol>>, <<DAdd(sent, sentiment_step), vol>>,
    <<sent, DSub(vol, volatility_step)>>, <<sent, DAdd(vol, volatility_step)>>>>

\* lines 218-227: the parameters one step away, the diagonals last
Neighbors(sent, vol, sentiment_step, volatility_step) ==
  <<<<DSub(sent, sentiment_step), vol>>, <<DAdd(sent, sentiment_step), vol>>,
    <<sent, DSub(vol, volatility_step)>>, <<sent, DAdd(vol, volatility_step)>>,
    <<DSub(sent, sentiment_step), DSub(vol, volatility_step)>>,
    <<DAdd(sent, sentiment_step), DAdd(vol, volatility_step)>>,
    <<DSub(sent, sentiment_step), DAdd(vol, volatility_step)>>,
    <<DAdd(sent, sentiment_step), DSub(vol, volatility_step)>>>>

\* line 235: (round(neighbor[0], 2), int(neighbor[1]))
NeighborKey(neighbor) == <<DRound(neighbor[1], 2), DInt(neighbor[2])>>

RECURSIVE SharpeValuesFrom(_, _, _)
\* lines 233-238: the Sharpe ratios of the neighbors from n on that are in
\* the lookup
SharpeValuesFrom(rows, neighbors, n) ==
  IF n > Len(neighbors) THEN <<>>
  ELSE (IF InLookup(rows, NeighborKey(neighbors[n]))
          THEN <<Lookup(rows, NeighborKey(neighbors[n]))>> ELSE <<>>)
         \o SharpeValuesFrom(rows, neighbors, n + 1)

\* np.std(values): the root of the mean squared deviation from the mean
PopulationStd(values) ==
  DDiv(DSqrt(ScaledVariance(values)), D(Len(values), 0))

\* lines 246-254: the record of a cell
RegionAt(row, sharpe_values, avg, std) ==
  [sentiment_threshold |-> DRound(row.sentiment_threshold, 2),
   volatility_percentile |-> row.volatility_percentile,
   sharpe_ratio |-> row.sharpe_ratio,
   avg_neighborhood_sharpe |-> DRound(avg, 4),
   neighborhood_std |-> DRound(std, 4),
   stability_score |-> DRound(DSub(avg, DMul(D(5, 1), std)), 4),
   valid_neighbors |-> Len(sharpe_values) - 1]

\* lines 240-244: the mean and the deviation of the neighborhood
RegionOn(row, sharpe_values) ==
  RegionAt(row, sharpe_values,
           DDiv(DSum(sharpe_values), D(Len(sharpe_values), 0)),
           IF Len(sharpe_values) > 1 THEN PopulationStd(sharpe_values)
           ELSE DZero)

\* lines 213-254: one iteration of the loop over the rows
RegionOf(rows, row, sentiment_step, volatility_step) ==
  RegionOn(row,
           <<row.sharpe_ratio>>
             \o SharpeValuesFrom(rows,
                  Neighbors(DRound(row.sentiment_threshold, 2),
                            D(row.volatility_percentile, 0),
                            sentiment_step, volatility_step),
                  1))

\* lines 257-261: sorted(..., reverse=True) is stable: regions of equal
\* score keep their order
SortedByScore(regions) ==
  [i \in 1..Len(regions) |->
     regions[CHOOSE k \in 1..Len(regions) :
               Cardinality({j \in 1..Len(regions) :
                   \/ DGt(regions[j].stability_score,
                          regions[k].stability_score)
                   \/ /\ regions[j].stability_score
                           = regions[k].stability_score
                      /\ j < k}) = i - 1]]

TopOf(sorted, n) == SubSeq(sorted, 1, Min(n, Len(sorted)))

RECURSIVE RegionsFrom(_, _, _, _)
\* lines 211-254: the loop over the rows from row k on, which appends the
\* record of each row
RegionsFrom(rows, k, sentiment_step, volatility_step) ==
  IF k > Len(rows) THEN <<>>
  ELSE <<RegionOf(rows, rows[k], sentiment_step, volatility_step)>>
         \o RegionsFrom(rows, k + 1, sentiment_step, volatility_step)

\* line 263: stable_regions[:top_n], for top_n >= 0
_find_stable_regions(rows, sentiment_step, volatility_step, n) ==
  TopOf(SortedByScore(RegionsFrom(rows, 1, sentiment_step, volatility_step)),
        n)

\* the grids whose stability is analysed, the Sharpe ratios of their cells
\* and the numbers of regions asked for
StabilityRanges ==
  {<<<<D(2, 1), D(6, 1), D(2, 1)>>, <<D(20, 0), D(40, 0), D(10, 0)>>>>,
   <<<<D(2, 1), D(4, 1), D(2, 1)>>, <<D(20, 0), D(40, 0), D(10, 0)>>>>,
   <<<<D(2, 1), D(4, 1), D(2, 1)>>, <<D(20, 0), D(23, 0), D(15, 1)>>>>}
StabilitySharpes == {D(75, 2), D(-125, 2)}
TopNs == {2, 10}

\* the results of a search over the grid, as _find_stable_regions reads them
StabilityResults(grid) ==
  {[k \in 1..Len(grid) |-> [sentiment_threshold |-> grid[k][1],
                            volatility_percentile |-> grid[k][2],
                            sharpe_ratio |-> sharpe[k]]] :
     sharpe \in [1..Len(grid) -> StabilitySharpes]}

StabilityInit ==
  /\ df = <<>>
  /\ initial_capital \in Capitals
  /\ transaction_cost \in {D(1, 3)}
  /\ sentiment_threshold \in SentimentThresholds
  /\ volatility_percentile \in VolatilityPercentiles
  /\ NoReplay
  /\ pc = "request"
  /\ strategy = None /\ cell = None /\ previous = None /\ backtest = None
  /\ \E ranges \in StabilityRanges :
       sentiment_range = ranges[1] /\ volatility_range = ranges[2]
  /\ results \in StabilityResults(GridCells(sentiment_range, volatility_range))
  /\ sharpe_memo = {}
  /\ metrics = None /\ endpoint = None /\ response = None
  /\ top_n \in TopNs
  /\ stable_regions = None

\* lines 348-353 of optimize_strategy: the call, with the steps of the ranges
FindStableRegions ==
  /\ pc = "request"
  /\ stable_regions = None
  /\ stable_regions' =
       Some(_find_stable_regions(results, sentiment_range[3],
                                 volatility_range[3], top_n))
  /\ pc' = "done"
  /\ UNCHANGED <<df, volatility_5d, args, volatility_threshold, loop, logs,
                 result, batch, metrics, endpoint, response, top_n>>

StabilityNext == FindStableRegions

SpecStability == StabilityInit /\ [][StabilityNext]_vars

(***************************************************************************)
(* Properties of the stable regions.  The grid has the cells of the        *)
(* results in the order of their enumeration: cell k stands in line        *)
(* (k - 1) \div n and in column (k - 1) % n of a grid with n volatility    *)
(* values.                                                                 *)
(***************************************************************************)
Columns ==
  Cardinality({k \in 1..Len(results) :
                 results[k].sentiment_threshold
                   = results[1].sentiment_threshold})

Distance(a, b) == IF a >= b THEN a - b ELSE b - a

\* the cells at most one line and one column away from cell k, cell k
\* among them
Neighbourhood(k) ==
  {j \in 1..Len(results) :
     /\ Distance((j - 1) \div Columns, (k - 1) \div Columns) <= 1
     /\ Distance((j - 1) % Columns, (k - 1) % Columns) <= 1}

\* in how many of the two dimensions cell k stands at the border of the grid
Borders(k) ==
  (IF (k - 1) \div Columns \in {0, (Len(results) \div Columns) - 1}
     THEN 1 ELSE 0)
  + (IF (k - 1) % Columns \in {0, Columns - 1} THEN 1 ELSE 0)

RECURSIVE SumOver(_, _)
\* the sum of the Sharpe ratios, taken to the power p in {1, 2}, of a set
\* of cells
SumOver(cells, p) ==
  IF cells = {} THEN DZero
  ELSE LET k == SetMin(cells)
       IN DAdd(IF p = 1 THEN results[k].sharpe_ratio
               ELSE DMul(results[k].sharpe_ratio, results[k].sharpe_ratio),
               SumOver(cells \ {k}, p))

\* the mean of the Sharpe ratios of a set of cells
MeanOver(cells) == DDiv(SumOver(cells, 1), D(Cardinality(cells), 0))

\* the mean of the squared deviations from the mean: the mean of the
\* squares less the square of the mean
VarianceOver(cells) ==
  DSub(DDiv(SumOver(cells, 2), D(Cardinality(cells), 0)),
       DMul(MeanOver(cells), MeanOver(cells)))

Near(x, y, places) == DLe(DAbs(DSub(x, y)), D(1, places))

\* the region is the one of cell k: its neighbourhood is cell k and the
\* adjacent cells that exist, and its score is their mean less half of
\* their standard deviation (the values are recorded rounded to 4 places)
RegionOfCell(region, k) ==
  /\ region.sentiment_threshold = results[k].sentiment_threshold
  /\ region.volatility_percentile = results[k].volatility_percentile
  /\ region.sharpe_ratio = results[k].sharpe_ratio
  /\ region.valid_neighbors = Cardinality(Neighbourhood(k)) - 1
  /\ region.avg_neighborhood_sharpe = DRound(MeanOver(Neighbourhood(k)), 4)
  /\ Near(DMul(region.neighborhood_std, region.neighborhood_std),
          VarianceOver(Neighbourhood(k)), 3)
  /\ Near(region.stability_score,
          DSub(region.avg_neighborhood_sharpe,
               DMul(D(5, 1), region.neighborhood_std)), 4)

\* the score of cell k is at most the bound, within a ten-thousandth:
\* mean - bound <= std / 2
ScoreAtMost(k, bound) ==
  LET twice == DMul(D(2, 0), DSub(DSub(MeanOver(Neighbourhood(k)), bound),
                                  D(1, 4)))
  IN \/ DLe(twice, DZero)
     \/ DLe(DMul(twice, twice), VarianceOver(Neighbourhood(k)))

Analysed == pc = "done" /\ stable_regions # None

\* C24 as stated: every region returned is the one of a cell of the grid,
\* with the cell and its up to 8 adjacent cells as neighbourhood, whatever
\* the steps: valid_neighbors is 8 inside the grid, 5 on an edge and 3 in a
\* corner, and stability_score = mean - 0.5 * std of the neighbourhood; the
\* regions returned are min(top_n, cells) different cells in the order of
\* their score from high to low, and no cell left out has a higher score
\* than a cell returned.
C24_AsStated ==
  Analysed =>
    /\ Len(stable_regions[1]) = Min(top_n, Len(results))
    /\ \A i, j \in 1..Len(stable_regions[1]) :
         i # j =>
           \/ stable_regions[1][i].sentiment_threshold
                # stable_regions[1][j].sentiment_threshold
           \/ stable_regions[1][i].volatility_percentile
                # stable_regions[1][j].volatility_percentile
    /\ \A i \in 1..Len(stable_regions[1]) :
         \E k \in 1..Len(results) :
           /\ RegionOfCell(stable_regions[1][i], k)
           /\ stable_regions[1][i].valid_neighbors
                = CASE Borders(k) = 0 -> 8
                    [] Borders(k) = 1 -> 5
                    [] OTHER -> 3
    /\ \A i \in 1..(Len(stable_regions[1]) - 1) :
         DGe(stable_regions[1][i].stability_score,
             stable_regions[1][i + 1].stability_score)
    /\ Len(stable_regions[1]) < Len(results) =>
         \A k \in 1..Len(results) :
           \/ \E i \in 1..Len(stable_regions[1]) :
                /\ stable_regions[1][i].sentiment_threshold
                     = results[k].sentiment_threshold
                /\ stable_regions[1][i].volatility_percentile
                     = results[k].volatility_percentile
           \/ ScoreAtMost(k, stable_regions[1][Len(stable_regions[1])]
                                .stability_score)

\* what _find_stable_regions does: the statement above holds when the
\* starts and the steps of both ranges are whole multiples of the place
\* that the keys of the lookup are rounded or cut to (a hundredth for the
\* sentiment threshold, 1 for the volatility percentile)
C24_OnStepsOfWholeKeys == StepsOnPlaces => C24_AsStated

\* the analysis of a grid of 3 x 3 cells with steps on the places of the
\* keys: the cell inside has 8 valid neighbors and a score below its mean,
\* and all 9 regions are returned
C24_Onto ==
  /\ Analysed /\ StepsOnPlaces
  /\ Len(results) = 9 /\ Len(stable_regions[1]) = 9
  /\ \E i \in 1..9 :
       /\ stable_regions[1][i].valid_neighbors = 8
       /\ DGt(stable_regions[1][i].neighborhood_std, DZero)
  /\ \E i \in 1..9 : stable_regions[1][i].valid_neighbors = 5
  /\ \E i \in 1..9 : stable_regions[1][i].valid_neighbors = 3

\* the analysis of a grid with the volatility values 20, 22, 23 of the range
\* (20, 23, 1.5): a corner cell has 1 valid neighbor
C24_Witness ==
  /\ Analysed
  /\ volatility_range = <<D(20, 0), D(23, 0), D(15, 1)>>
  /\ \E i \in 1..Len(stable_regions[1]) :
       /\ stable_regions[1][i].volatility_percentile = 20
       /\ stable_regions[1][i].valid_neighbors = 1

(***************************************************************************)
(* The cell of the optimizer beside run_backtest and                       *)
(* calculate_performance_metrics: one request is served by both, with the  *)
(* same feature series, thresholds and transaction cost.  The capital is   *)
(* an argument of run_backtest only.                                       *)
(***************************************************************************)
EquivalenceReturns == {D(25, 2), D(-2, 1), D(4, 7)}
EquivalenceCapitals == {D(10000, 0), DOne}

EquivalenceFrames ==
  UNION {Frames(n, StrategySentiments, EquivalenceReturns) : n \in 0..MaxRows}

EquivalenceInit ==
  /\ df \in EquivalenceFrames
  /\ initial_capital \in EquivalenceCapitals
  /\ transaction_cost \in TransactionCosts
  /\ sentiment_threshold \in SentimentThresholds
  /\ volatility_percentile \in VolatilityPercentiles
  /\ NoReplay
  /\ pc = "request"
  /\ strategy = None /\ cell = None /\ previous = None /\ backtest = None
  /\ NoSearch
  /\ NoApi

\* _run_strategy_backtest on the feature series of the request: the locals
\* of lines 90-130 and the result of lines 132-140
RunStrategyBacktest ==
  /\ cell = None
  /\ Len(df) > 0
  /\ \E locals \in {CellLocals(df, sentiment_threshold,
                               volatility_percentile, transaction_cost)} :
     \E sharpe \in SharpeRatios(locals.strategy_returns,
                                locals.total_return) :
       cell' = Some([locals |-> locals,
                     result |-> CellResult(locals, sentiment_threshold,
                                           volatility_percentile, sharpe)])
  /\ UNCHANGED <<df, volatility_5d, args, api, volatility_threshold, loop,
                 logs, result, pc, strategy, previous, backtest, search>>

EquivalenceNext ==
  \/ RunBacktestEmpty
  \/ RunBacktest
  \/ CalculateMetricsEmpty
  \/ CalculateMetrics
  \/ RunStrategyBacktest

SpecEquivalence == EquivalenceInit /\ [][EquivalenceNext]_vars

\* both paths have served the request
Compared ==
  /\ cell # None /\ strategy # None /\ backtest # None /\ metrics # None
  /\ Len(df) > 0

SameSign(x, y) == DSign(x) = DSign(y)

\* the strategy returns of the cell, all of them, have no more places than
\* run_backtest records
OnRecordedPlaces ==
  \A i \in 1..Len(df) :
    DRound(cell[1].locals.strategy_returns[i], 6)
      = cell[1].locals.strategy_returns[i]

\* the positions and the strategy returns of the cell are those of
\* run_backtest, the returns as run_backtest records them
SameSeries ==
  /\ cell[1].locals.position = strategy[1].position
  /\ \A i \in 1..Len(df) :
       backtest[1][i].strategy_returns
         = DRound(cell[1].locals.strategy_returns[i], 6)

\* the Sharpe ratio is 0, above 0 or below 0 in both, and the total return
\* and the maximum drawdown, in percent, are 0.01 apart at most
SameMetrics ==
  /\ SameSign(metrics[1].sharpe_ratio, cell[1].result.sharpe_ratio)
  /\ Near(metrics[1].total_return, cell[1].result.total_return_pct, 2)
  /\ Near(metrics[1].max_drawdown, cell[1].result.max_drawdown_pct, 2)

\* C25 as stated: for every feature series and every cell,
\* _run_strategy_backtest has the position series and the strategy returns
\* of run_backtest, and its Sharpe ratio, total return and maximum drawdown
\* are those of calculate_performance_metrics up to the rounding of the
\* output.
C25_AsStated == Compared => SameSeries /\ SameMetrics

\* C25, the part that holds: the series are the same for every input, and the
\* metrics agree when the capital is the default 10000 and no strategy
\* return has more than the 6 places that run_backtest records.
C25_SameOnRecordedPlaces ==
  Compared =>
    /\ SameSeries
    /\ (initial_capital = D(10000, 0) /\ OnRecordedPlaces) => SameMetrics

\* a series of two Short days with returns of 0.0000004 at no cost: the cell
\* has a Sharpe ratio below 0, the metrics of the same request have 0
C25_Witness ==
  /\ Compared
  /\ transaction_cost = DZero
  /\ Len(df) = 3
  /\ cell[1].locals.position = <<0, -1, -1>>
  /\ DLt(cell[1].result.sharpe_ratio, DZero)
  /\ metrics[1].sharpe_ratio = DZero

\* a capital of 1: the total return of the metrics is that of a portfolio
\* value rounded to cents, 25.0 percent where the cell has 24.9
C25_OnCents ==
  /\ Compared
  /\ initial_capital = DOne
  /\ ~Near(metrics[1].total_return, cell[1].result.total_return_pct, 2)

(***************************************************************************)
(* The ledger of completed trades of run_live_simulation.                  *)
(***************************************************************************)
\* the step records one trade at the end of the ledger and leaves the trades
\* recorded before as they are
RecordsOneTrade ==
  /\ Len(completed_trades') = Len(completed_trades) + 1
  /\ SubSeq(completed_trades', 1, Len(completed_trades)) = completed_trades

\* the step is a day on which the position held is closed
ClosesOnDay ==
  /\ Len(df') = Len(df) + 1
  /\ position # 0
  /\ position' # position
  /\ completed_trades'[Len(completed_trades')].exit_date = df'[Len(df')].date

\* C26: the ledger of completed trades is write-once and append-only: a step
\* either leaves it as it is or appends one trade, on a day on which the
\* position held is closed and with the next trade_id; no recorded trade is
\* changed, moved or removed.
C26_AppendOnly ==
  [][\/ completed_trades' = completed_trades
     \/ /\ RecordsOneTrade
        /\ ClosesOnDay
        /\ completed_trades'[Len(completed_trades')].trade_id
             = Len(completed_trades) + 1]_vars

\* C26: the trade_id values are 1, 2, ..., n in the order of recording.
C26_TradeIds ==
  \A i \in 1..Len(completed_trades) : completed_trades[i].trade_id = i

\* a trade is on the ledger and a later day has passed
C26_Witness ==
  /\ Len(completed_trades) = 1
  /\ completed_trades[1].trade_id = 1
  /\ Len(df) > completed_trades[1].exit_date

\* two trades are on the ledger
C26_TwoTrades == Len(completed_trades) = 2

(***************************************************************************)
(* The open trade of run_live_simulation and the dates of the ledger.      *)
(***************************************************************************)
\* C27: at the end of every simulated day of run_live_simulation there is an
\* open trade exactly when the position is not Flat, never more than one, and
\* its recorded position is the current position; every completed trade has
\* its entry_date strictly before its exit_date, and each trade's entry_date
\* is on or after the exit_date of the trade before it.
C27_OpenTradeAndDates ==
  /\ open_trade # None <=> position # 0
  /\ Len(open_trade) <= 1
  /\ open_trade # None => open_trade[1].position = position
  /\ \A i \in 1..Len(completed_trades) :
       /\ completed_trades[i].entry_date < completed_trades[i].exit_date
       /\ i > 1 => completed_trades[i].entry_date
                     >= completed_trades[i - 1].exit_date

\* a Long trade is closed and a Short trade opened on the same day, and the
\* Short trade is closed on the next day
C27_Witness ==
  /\ Len(completed_trades) = 2
  /\ completed_trades[1].type = "LONG"
  /\ completed_trades[2].type = "SHORT"
  /\ completed_trades[2].entry_date = completed_trades[1].exit_date
  /\ open_trade = None /\ position = 0

\* a Short trade is open at the end of a day
C27_OpenShort ==
  /\ pc = "loop"
  /\ open_trade # None
  /\ position = -1
  /\ Len(completed_trades) = 1

(***************************************************************************)
(* The value of a Short position in run_live_simulation, beside the return *)
(* that run_backtest credits to it.                                        *)
(***************************************************************************)
\* the return of the close of day t on the close of the day before
CloseReturn(t) == DSub(DDiv(df[t].close, df[t - 1].close), DOne)

ShortTrades == {i \in 1..Len(completed_trades) : completed_trades[i].type = "SHORT"}

\* C28: run_live_simulation values a Short position like a Long one: at the
\* end of a day that is Short the portfolio value is cash + shares x close;
\* the profit_loss of a SHORT trade is its exit value less its entry value,
\* and at no transaction cost it is above 0 exactly when the exit close is
\* above the entry close; run_backtest credits a Short position with
\* -1 x the return of each of the days the trade is held.
C28_ShortValuedLikeLong ==
  /\ (pc = "loop" /\ Len(df) > 0 /\ position = -1) =>
       /\ DGt(shares, DZero)
       /\ prev_portfolio_value = DAdd(cash, DMul(shares, df[Len(df)].close))
  /\ \A i \in ShortTrades :
       /\ WithinCent(completed_trades[i].profit_loss,
                     DSub(completed_trades[i].exit_value,
                          completed_trades[i].entry_value))
       /\ transaction_cost = DZero =>
            (DGt(completed_trades[i].profit_loss, DZero)
               <=> DGt(completed_trades[i].exit_price,
                       completed_trades[i].entry_price))
       /\ \A t \in (completed_trades[i].entry_date + 1)
                     ..completed_trades[i].exit_date :
            StrategyReturn(-1, CloseReturn(t), 0, transaction_cost)
              = DNeg(CloseReturn(t))

\* a SHORT trade entered at 100 and closed at 125 at no cost has a profit,
\* on a day for which run_backtest credits the Short position with -0.25
C28_Witness ==
  /\ transaction_cost = DZero
  /\ \E i \in ShortTrades :
       /\ completed_trades[i].entry_price = D(100, 0)
       /\ completed_trades[i].exit_price = D(125, 0)
       /\ completed_trades[i].exit_date = completed_trades[i].entry_date + 1
       /\ DGt(completed_trades[i].profit_loss, DZero)
       /\ StrategyReturn(-1, CloseReturn(completed_trades[i].exit_date), 0,
                         transaction_cost) = D(-25, 2)

(***************************************************************************)
(* The positions of run_live_simulation beside those of the backtest, on   *)
(* the same feature series and with the same thresholds.                   *)
(***************************************************************************)
\* every row of the feature series has been simulated
Simulated == pc # "load" /\ Len(df) > 0 /\ Len(df) = Len(volatility_5d)

\* the position series of generate_sentiment_strategy on the feature series
BacktestPosition ==
  generate_sentiment_strategy(df, sentiment_threshold,
                              volatility_percentile).position

\* C29 as stated: the end-of-day position of run_live_simulation on day t is
\* the position of the backtest on day t+1, for every t before the last day,
\* rows whose volatility_5d is undefined included.
C29_AsStated ==
  Simulated =>
    \A t \in 1..(Len(df) - 1) :
      position_history[t].position = BacktestPosition[t + 1]

\* C29 on the rows whose volatility_5d is defined: the end-of-day position of
\* run_live_simulation on day t is the position of the backtest on day t+1.
C29_SameWhereDefined ==
  Simulated =>
    \A t \in 1..(Len(df) - 1) :
      ~IsNa(df[t].volatility_5d) =>
        position_history[t].position = BacktestPosition[t + 1]

\* a day whose volatility_5d is undefined and whose sentiment is below the
\* negated threshold: the live simulator ends it Flat, the backtest is Short
\* on the next day
C29_Witness ==
  /\ Simulated
  /\ \E t \in 1..(Len(df) - 1) :
       /\ IsNa(df[t].volatility_5d)
       /\ DLt(df[t].sentiment_avg_5d, DNeg(sentiment_threshold))
       /\ position_history[t].position = 0
       /\ BacktestPosition[t + 1] = -1

\* a day whose volatility_5d is defined ends Short, as the backtest is on the
\* next day
C29_ShortOnBoth ==
  /\ Simulated
  /\ \E t \in 1..(Len(df) - 1) :
       /\ ~IsNa(df[t].volatility_5d)
       /\ position_history[t].position = -1
       /\ BacktestPosition[t + 1] = -1

(***************************************************************************)
(* The counts and the sums of the summary of run_live_simulation.          *)
(***************************************************************************)
\* the numbers of completed trades with a profit_loss of 0, above 0 and not
\* above 0
TradesAtZero ==
  Cardinality({i \in 1..Len(completed_trades) :
                 completed_trades[i].profit_loss = DZero})

TradesAboveZero ==
  Cardinality({i \in 1..Len(completed_trades) :
                 DGt(completed_trades[i].profit_loss, DZero)})

TradesNotAboveZero ==
  Cardinality({i \in 1..Len(completed_trades) :
                 ~DGt(completed_trades[i].profit_loss, DZero)})

\* C30: in the summary of run_live_simulation the winning and the losing
\* trades partition the completed trades: winning_trades + losing_trades is
\* total_trades, the winning trades are those with a profit_loss above 0 and
\* the losing trades all others, a profit_loss of exactly 0 included;
\* total_profit >= 0, total_loss <= 0 and best_trade >= worst_trade.
C30_SummaryPartition ==
  Finished =>
    /\ result[1].summary.total_trades = Len(completed_trades)
    /\ result[1].summary.winning_trades + result[1].summary.losing_trades
         = result[1].summary.total_trades
    /\ result[1].summary.winning_trades = TradesAboveZero
    /\ result[1].summary.losing_trades = TradesNotAboveZero
    /\ result[1].summary.losing_trades >= TradesAtZero
    /\ DGe(TotalProfit, DZero)
    /\ DLe(TotalLoss, DZero)
    /\ DGe(result[1].summary.best_trade, result[1].summary.worst_trade)

\* a run of two trades, one with a profit and one with a profit_loss of
\* exactly 0, which is counted as the one losing trade
C30_Witness ==
  /\ Finished
  /\ result[1].summary.total_trades = 2
  /\ result[1].summary.winning_trades = 1
  /\ result[1].summary.losing_trades = 1
  /\ TradesAtZero = 1
  /\ DGt(result[1].summary.best_trade, result[1].summary.worst_trade)

=============================================================================
